---- MODULE Spec2Model ----
(***************************************************************************)
(* Model of the Aura_UserLens content script (src/content.js): the         *)
(* emotion-aware lexical substitution engine, its snapshot/restore ledger  *)
(* and the mutation watcher that re-applies it.                            *)
(*                                                                         *)
(* Text is a TLA+ string; the string functions of the source work on the   *)
(* sequence of its characters (Chars / Str convert).                       *)
(***************************************************************************)
EXTENDS Integers, Sequences, FiniteSets, TLC

Null == "<null>"

\* ------------------------------------------------------------------------
\* Characters and JavaScript string primitives
\* ------------------------------------------------------------------------
Chars(s) == [i \in 1..Len(s) |-> SubSeq(s, i, i)]

Str(cs) ==
    LET join[i \in 0..Len(cs)] == IF i = 0 THEN "" ELSE join[i - 1] \o cs[i]
    IN  join[Len(cs)]

LowerLetters == Chars("abcdefghijklmnopqrstuvwxyz")
UpperLetters == Chars("ABCDEFGHIJKLMNOPQRSTUVWXYZ")
Digits == Chars("0123456789")

LowerSet == {LowerLetters[i] : i \in 1..26}
UpperSet == {UpperLetters[i] : i \in 1..26}
DigitSet == {Digits[i] : i \in 1..10}

UpperOf == [c \in LowerSet |-> UpperLetters[CHOOSE i \in 1..26 : LowerLetters[i] = c]]
LowerOf == [c \in UpperSet |-> LowerLetters[CHOOSE i \in 1..26 : UpperLetters[i] = c]]

\* String.prototype.toUpperCase / toLowerCase on one character
UpChar(c) == IF c \in LowerSet THEN UpperOf[c] ELSE c
LowChar(c) == IF c \in UpperSet THEN LowerOf[c] ELSE c

toUpperCase(cs) == [i \in 1..Len(cs) |-> UpChar(cs[i])]
toLowerCase(cs) == [i \in 1..Len(cs) |-> LowChar(cs[i])]

\* the class [\p{L}0-9] of the compiled pattern
IsWordChar(c) == c \in LowerSet \/ c \in UpperSet \/ c \in DigitSet

slice(cs, from) == SubSeq(cs, from + 1, Len(cs))
sliceEnd(cs, n) == SubSeq(cs, 1, Len(cs) - n)
endsWith(cs, suf) ==
    /\ Len(suf) <= Len(cs)
    /\ SubSeq(cs, Len(cs) - Len(suf) + 1, Len(cs)) = suf
startsWith(cs, pre) ==
    /\ Len(pre) <= Len(cs)
    /\ SubSeq(cs, 1, Len(pre)) = pre

\* ------------------------------------------------------------------------
\* preserveCaseReplace                                    content.js 39-49
\* ------------------------------------------------------------------------
\* preserveCaseReplace without its Title Case branch
preserveCaseReplace_noTitle(match, replacement) ==
    IF match = <<>> \/ replacement = <<>>
    THEN (IF replacement # <<>> THEN replacement ELSE match)
    ELSE IF toUpperCase(match) = match THEN toUpperCase(replacement)
    ELSE replacement

preserveCaseReplace(match, replacement) ==
    IF match = <<>> \/ replacement = <<>>
    THEN (IF replacement # <<>> THEN replacement ELSE match)
    ELSE IF toUpperCase(match) = match THEN toUpperCase(replacement)
    ELSE IF /\ UpChar(match[1]) = match[1]
            /\ toLowerCase(slice(match, 1)) = slice(match, 1)
         THEN <<UpChar(replacement[1])>> \o slice(replacement, 1)
    ELSE replacement

\* ------------------------------------------------------------------------
\* Dictionaries: a sequence of <<key, value>> pairs in Object.keys order
\* ------------------------------------------------------------------------
DictKeys(map) == [i \in 1..Len(map) |-> Chars(map[i][1])]

\* map[lowBase]: the value stored under the key, Null when there is none
Lookup(map, lowBase) ==
    IF \E i \in 1..Len(map) : Chars(map[i][1]) = lowBase
    THEN map[CHOOSE i \in 1..Len(map) : Chars(map[i][1]) = lowBase][2]
    ELSE Null

\* AURA_MAP[String(k).toLowerCase()] = String(map[k])  (content.js 622-623)
NormalizeMap(map) ==
    [i \in 1..Len(map) |-> <<Str(toLowerCase(Chars(map[i][1]))), map[i][2]>>]

\* ------------------------------------------------------------------------
\* buildRegexFromMap                                     content.js 127-146
\* The compiled pattern is represented by what determines its language:
\* the lower-cased keys in alternation order (longest first, stable).
\* ------------------------------------------------------------------------
SortRank(keys, i) ==
    Cardinality({j \in 1..Len(keys) :
        \/ Len(keys[j]) > Len(keys[i])
        \/ (Len(keys[j]) = Len(keys[i]) /\ j < i)})

SortedKeys(keys) ==
    [r \in 1..Len(keys) |-> keys[CHOOSE i \in 1..Len(keys) : SortRank(keys, i) = r - 1]]

\* AURA_RE before any pattern was compiled, and the null buildRegexFromMap
\* returns from its catch block (line 144)
NoRegex == [compiled |-> FALSE, keys |-> <<>>]

\* Every key is escaped (reEscape, line 36), so no key is a syntax error;
\* what is left to make both `new RegExp` calls throw (lines 137, 140) is a
\* pattern beyond the engine's size limit.  PatternLimit is the longest key
\* the constructor accepts.
PatternLimit == 12
RegExpThrows(keys) == \E i \in 1..Len(keys) : Len(keys[i]) > PatternLimit

\* buildRegexFromMap with the keys left in Object.keys order
buildRegexFromMap_unsorted(map) ==
    [compiled |-> TRUE,
     keys |-> [i \in 1..Len(map) |-> toLowerCase(Chars(map[i][1]))]]

\* buildRegexFromMap leaving out the keys the constructor rejects
buildRegexFromMap_skipKey(map) ==
    LET keys == [i \in 1..Len(map) |-> toLowerCase(Chars(map[i][1]))]
    IN  [compiled |-> TRUE,
         keys |-> SortedKeys(SelectSeq(keys, LAMBDA k : Len(k) <= PatternLimit))]

buildRegexFromMap(map) ==
    LET keys == [i \in 1..Len(map) |-> toLowerCase(Chars(map[i][1]))]
    IN  IF RegExpThrows(keys) THEN NoRegex
        ELSE [compiled |-> TRUE, keys |-> SortedKeys(keys)]

\* suffixGroup alternatives in the order the pattern tries them; the empty
\* alternative is the skipped optional group, tried last
SuffixAlternatives ==
    << Chars("'s"), Chars("ing"), Chars("ed"), Chars("es"), Chars("s"),
       Chars("er"), Chars("est"), Chars("ly"), <<>> >>

\* the pattern text `pat` occurs at position p of cs, ignoring case (flag i)
MatchesAt(cs, p, pat) ==
    /\ p + Len(pat) - 1 <= Len(cs)
    /\ \A j \in 1..Len(pat) : LowChar(cs[p + j - 1]) = LowChar(pat[j])

\* the lookahead (?=[^\p{L}0-9]|$)
BoundaryAt(cs, p) == p > Len(cs) \/ ~IsWordChar(cs[p])

\* Candidate matches starting at position p: <<prefix length, key index,
\* suffix index>>.  Prefix alternative 0 is ^, alternative 1 a non-word char.
MatchCandidates(cs, p, re) ==
    {c \in (0..1) \X (1..Len(re)) \X (1..Len(SuffixAlternatives)) :
        /\ (c[1] = 0 => p = 1)
        /\ (c[1] = 1 => (p <= Len(cs) /\ ~IsWordChar(cs[p])))
        /\ MatchesAt(cs, p + c[1], re[c[2]])
        /\ MatchesAt(cs, p + c[1] + Len(re[c[2]]), SuffixAlternatives[c[3]])
        /\ BoundaryAt(cs, p + c[1] + Len(re[c[2]]) + Len(SuffixAlternatives[c[3]]))}

\* backtracking order: earlier alternatives first, outermost group first
FirstCandidate(S) ==
    CHOOSE c \in S : \A d \in S :
        \/ c[1] < d[1]
        \/ (c[1] = d[1] /\ c[2] < d[2])
        \/ (c[1] = d[1] /\ c[2] = d[2] /\ c[3] <= d[3])

\* ------------------------------------------------------------------------
\* transformSuffixForReplacement                         content.js 149-210
\* ------------------------------------------------------------------------
isVowel(c) == LowChar(c) \in {"a", "e", "i", "o", "u"}

ConsonantY(rb) ==
    /\ endsWith(rb, Chars("y"))
    /\ Len(rb) > 1
    /\ ~isVowel(rb[Len(rb) - 1])

\* transformSuffixForReplacement appending every suffix as it was matched
transformSuffixForReplacement_asMatched(replacementBase, suffix) ==
    IF suffix = <<>> THEN <<>>
    ELSE IF suffix = Chars("'s") THEN Chars("'s")
    ELSE replacementBase \o toLowerCase(suffix)

transformSuffixForReplacement(replacementBase, suffix) ==
    LET rb == replacementBase
        s == toLowerCase(suffix)
    IN  IF suffix = <<>> THEN <<>>
        ELSE IF suffix = Chars("'s") THEN Chars("'s")
        ELSE IF s = Chars("ing") THEN
            (IF Len(rb) > 1 /\ endsWith(rb, Chars("e")) /\ ~endsWith(rb, Chars("ee"))
             THEN sliceEnd(rb, 1) \o Chars("ing")
             ELSE rb \o Chars("ing"))
        ELSE IF s = Chars("ed") THEN
            (IF endsWith(rb, Chars("e")) THEN rb \o Chars("d") ELSE rb \o Chars("ed"))
        ELSE IF s = Chars("er") THEN rb \o Chars("er")
        ELSE IF s = Chars("est") THEN rb \o Chars("est")
        ELSE IF s = Chars("ly") THEN
            (IF ConsonantY(rb) THEN sliceEnd(rb, 1) \o Chars("ily")
             ELSE IF endsWith(rb, Chars("e")) /\ ~endsWith(rb, Chars("ee"))
                  THEN sliceEnd(rb, 1) \o Chars("ly")
             ELSE rb \o Chars("ly"))
        ELSE IF s = Chars("s") \/ s = Chars("es") THEN
            (IF \/ (Len(rb) >= 1 /\ LowChar(rb[Len(rb)]) \in {"s", "x", "z"})
                \/ (Len(rb) >= 2 /\ toLowerCase(SubSeq(rb, Len(rb) - 1, Len(rb)))
                                       \in {Chars("ch"), Chars("sh")})
             THEN rb \o Chars("es")
             ELSE IF ConsonantY(rb) THEN sliceEnd(rb, 1) \o Chars("ies")
             ELSE rb \o Chars("s"))
        ELSE rb \o suffix

\* ------------------------------------------------------------------------
\* replaceTextWithMapSync                                content.js 213-279
\* ------------------------------------------------------------------------
\* the suffix written after the replacement base (lines 238-258)
TransformedSuffix(replacementBase, suffixGroup) ==
    LET low == toLowerCase(suffixGroup)
    IN  IF suffixGroup = <<>> THEN <<>>
        ELSE IF low = Chars("'s") THEN Chars("'s")
        ELSE LET candidateFull == transformSuffixForReplacement(replacementBase, low)
             IN  IF startsWith(toLowerCase(candidateFull), toLowerCase(replacementBase))
                 THEN slice(candidateFull, Len(replacementBase))
                 ELSE low

\* the replace callback returning the replaced word without the captured
\* prefix character
ReplaceCallback_noPrefix(fullMatch, prefix, matchedBase, suffixGroup, map) ==
    LET mapped == Lookup(map, toLowerCase(matchedBase))
    IN  IF mapped = Null \/ mapped = "" THEN fullMatch
        ELSE LET replacementBase == Chars(mapped)
                 transformed == TransformedSuffix(replacementBase, suffixGroup)
                 preservedBase == preserveCaseReplace(matchedBase, replacementBase)
                 finalSuffix ==
                     IF /\ transformed # <<>>
                        /\ suffixGroup # <<>>
                        /\ suffixGroup[1] = UpChar(suffixGroup[1])
                     THEN <<UpChar(transformed[1])>> \o slice(transformed, 1)
                     ELSE transformed
             IN  preservedBase \o finalSuffix

\* the replace callback (lines 221-274)
ReplaceCallback(fullMatch, prefix, matchedBase, suffixGroup, map) ==
    LET mapped == Lookup(map, toLowerCase(matchedBase))
    IN  IF mapped = Null \/ mapped = "" THEN fullMatch
        ELSE LET replacementBase == Chars(mapped)
                 transformed == TransformedSuffix(replacementBase, suffixGroup)
                 preservedBase == preserveCaseReplace(matchedBase, replacementBase)
                 finalSuffix ==
                     IF /\ transformed # <<>>
                        /\ suffixGroup # <<>>
                        /\ suffixGroup[1] = UpChar(suffixGroup[1])
                     THEN <<UpChar(transformed[1])>> \o slice(transformed, 1)
                     ELSE transformed
             IN  prefix \o preservedBase \o finalSuffix

\* text.replace(re, callback) with the g flag, scanning from position p
ReplaceFrom(cs, start, re, map) ==
    LET from[p \in 1..(Len(cs) + 1)] ==
            IF p > Len(cs) THEN <<>>
            ELSE LET S == MatchCandidates(cs, p, re)
                 IN  IF S = {} THEN <<cs[p]>> \o from[p + 1]
                     ELSE LET c == FirstCandidate(S)
                              key == re[c[2]]
                              suf == SuffixAlternatives[c[3]]
                              bs == p + c[1]
                              ss == bs + Len(key)
                              e == ss + Len(suf)
                          IN  ReplaceCallback(SubSeq(cs, p, e - 1),
                                              SubSeq(cs, p, bs - 1),
                                              SubSeq(cs, bs, ss - 1),
                                              SubSeq(cs, ss, e - 1), map)
                              \o from[e]
    IN  from[start]

\* replaceTextWithMapSync(text, map) run while AURA_RE holds `re`: the text
\* it returns.  With no pattern yet, one is compiled from `map` (line 216).
CompiledFor(re, map) == IF ~re.compiled THEN buildRegexFromMap(map) ELSE re

\* replaceTextWithMapSync with a bare `return` in its guard: the caller gets
\* nothing back instead of the text it passed
replaceTextWithMapSync_undef(txt, map, re) ==
    IF txt = "" \/ Len(map) = 0 THEN ""
    ELSE Str(ReplaceFrom(Chars(txt), 1, CompiledFor(re, map).keys, map))

replaceTextWithMapSync(txt, map, re) ==
    IF txt = "" \/ Len(map) = 0 THEN txt
    ELSE Str(ReplaceFrom(Chars(txt), 1, CompiledFor(re, map).keys, map))

\* ------------------------------------------------------------------------
\* The content tree.  A fixed universe of nodes; a node is attached to its
\* parent or detached (NoParent).  Elements carry a tag and attributes,
\* text leaves carry a nodeValue.
\* ------------------------------------------------------------------------
NoParent == "<none>"
NoAttr == "<absent>"
NoEntry == "<no entry>"

Elements == {"body", "div", "script"}
Leaves == {"t1", "t2", "t3"}
Nodes == Elements \cup Leaves

\* nodeName of each element
TagOf == [e \in Elements |->
            CASE e = "body" -> "BODY" [] e = "div" -> "DIV" [] e = "script" -> "SCRIPT"]

\* the parent a node has whenever it is attached
HomeOf == [n \in Nodes \ {"body"} |->
            CASE n = "t1" -> "body" [] n = "div" -> "body" [] n = "t2" -> "div"
              [] n = "script" -> "div" [] n = "t3" -> "script"]

\* document order of the universe
DocOrder == <<"body", "t1", "div", "t2", "script", "t3">>

\* nodes external code may detach and re-insert
Movable == {"t1", "div"}

EMOTION_IGNORE_TAGS ==
    {"SCRIPT", "STYLE", "NOSCRIPT", "IFRAME", "OBJECT", "VIDEO", "AUDIO",
     "CANVAS", "META", "LINK", "HEAD", "SVG"}
EMOTION_ATTRIBUTES == {"alt", "title", "placeholder", "aria-label", "aria-describedby"}

\* elements and attribute names whose values the model tracks
AttrElements == {"div", "script"}
AttrNames == {"title"}

\* ------------------------------------------------------------------------
\* Bounds and input sets
\* ------------------------------------------------------------------------
MaxExternal == 1        \* external writes and removals per behaviour
MaxEvents == 2          \* external storage writes and messages per behaviour
MaxChanges == 1         \* undelivered storage.onChanged events
MaxDeferred == 1        \* pending 60 ms deferred applies
MaxPipelines == 1       \* pipeline instances in flight
MaxTextLen == 18        \* longest text the engine may produce
MaxTouches == 2         \* external tree mutations per behaviour of SpecWatch

EmptyMap == <<>>
DictHate == << <<"hate", "dislike">> >>
DictBad == << <<"bad", "not bad">>, <<"hate", "love">> >>
Dicts == {DictHate, DictBad}

\* what external code writes into leaves and attributes
ExtTexts == {"hates it", "fine"}
ExtAttrs == {"hates", NoAttr}

\* texts and dictionaries the entry points are called with directly
FnTexts ==
    {"I HATE this", "hated this", "hating this", "hates this", "The quick brown fox"}
FnDicts == {EmptyMap, DictHate}
FnPageTexts == {"I HATE this", "hates this", "The quick brown fox"}

\* the packaged aura_mapping.json as fetchMappingFile returns it
FileMaps == {DictHate, EmptyMap}

\* page localStorage carries no aura_emotion_* item (content.js 662-663)
ls_aware == FALSE
ls_map == EmptyMap

EmptyLedgerText == [l \in Leaves |-> NoEntry]
EmptyLedgerAttr == [el \in AttrElements |-> [a \in AttrNames |-> NoEntry]]
NoAttrs == EmptyLedgerAttr
NoObserver == [on |-> FALSE, map |-> EmptyMap]

\* the page the content script is loaded into
InitText == [l \in Leaves |->
                CASE l = "t1" -> "I HATE this" [] l = "t2" -> "bad day" [] l = "t3" -> "hate"]
InitAttr == [el \in AttrElements |-> [a \in AttrNames |->
                IF el = "div" THEN "hated" ELSE NoAttr]]


\* ------------------------------------------------------------------------
\* replaceTextWithMapSync tabulated over the texts, dictionaries and
\* patterns the model can hold, so that a pass looks its results up
\* instead of matching again
\* ------------------------------------------------------------------------
MapUniverse == {EmptyMap} \cup {NormalizeMap(d) : d \in Dicts \cup FileMaps}
RegexUniverse == {NoRegex} \cup {buildRegexFromMap(d) : d \in MapUniverse \ {EmptyMap}}

SeedTexts ==
    ExtTexts \cup FnTexts \cup {InitText[l] : l \in Leaves}
        \cup (ExtAttrs \ {NoAttr})
        \cup {InitAttr[el][a] : el \in AttrElements, a \in AttrNames}

\* the texts one more pass can produce from those of S
MoreTexts(S) ==
    S \cup {replaceTextWithMapSync(t, d, r) :
                t \in {u \in S : Len(u) <= MaxTextLen},
                d \in MapUniverse, r \in RegexUniverse}

TextUniverse == MoreTexts(MoreTexts(MoreTexts(MoreTexts(SeedTexts))))

ReplaceTable ==
    [t \in TextUniverse, d \in MapUniverse, r \in RegexUniverse |->
        replaceTextWithMapSync(t, d, r)]


VARIABLES
    parent,             \* Nodes \ {body} -> parent element or NoParent
    text,               \* Leaves -> nodeValue
    attr                \* AttrElements -> [AttrNames -> value or NoAttr]

RECURSIVE IsConnectedIn(_, _)
IsConnectedIn(par, n) ==
    IF n = "body" THEN TRUE
    ELSE IF par[n] = NoParent THEN FALSE
    ELSE IsConnectedIn(par, par[n])

isConnected(n) == IsConnectedIn(parent, n)

\* n lies in the subtree rooted at r (r included)
RECURSIVE InSubtreeIn(_, _, _)
InSubtreeIn(par, r, n) ==
    IF n = r THEN TRUE
    ELSE IF n = "body" THEN FALSE
    ELSE IF par[n] = NoParent THEN FALSE
    ELSE InSubtreeIn(par, r, par[n])

\* isEditable (content.js 27-34); no element of the universe is contenteditable
isEditable(el) == TagOf[el] \in {"INPUT", "TEXTAREA", "SELECT"}

\* text.trim() is empty
IsBlank(t) == \A i \in 1..Len(t) : SubSeq(t, i, i) = " "

\* acceptNode of the text walker (content.js 405-413)
acceptNode(par, txt, leaf) ==
    /\ ~IsBlank(txt[leaf])
    /\ ~(par[leaf] # NoParent /\ TagOf[par[leaf]] \in EMOTION_IGNORE_TAGS)
    /\ ~(par[leaf] # NoParent /\ isEditable(par[leaf]))

\* the text leaves a walker rooted at `root` visits: proper descendants only
WalkedLeaves(par, txt, root) ==
    {l \in Leaves : l # root /\ InSubtreeIn(par, root, l) /\ acceptNode(par, txt, l)}

\* the leaf lies, at any depth, below an element with an ignored tag or an
\* editable element
InExcluded(par, l) ==
    \E e \in Elements :
        /\ InSubtreeIn(par, e, l)
        /\ (TagOf[e] \in EMOTION_IGNORE_TAGS \/ isEditable(e))

\* ------------------------------------------------------------------------
\* Engine state
\* ------------------------------------------------------------------------
VARIABLES
    originalTextMap,    \* Leaves -> recorded original or NoEntry
    originalAttrMap,    \* AttrElements -> [AttrNames -> original or NoEntry]; an
                        \* element has a Map entry iff one of its names has a value
    AURA_MAP,           \* the normalized dictionary; EmptyMap stands for null
    AURA_RE,            \* the compiled pattern or NoRegex
    observer,           \* __aura_emotion_observer: [on, map], map the captured dictionary
    shadowWatcher,      \* __aura_emotion_shadow_watcher is set
    records,            \* nodes of the mutation records queued for the observer, in order
    timers,             \* pending debounced calls [nodes, map, live]
    deferred,           \* number of pending 60 ms deferred applies
    faulty,             \* nodes on which a DOM write throws
    replaced            \* ReplaceTable, computed once when the script starts

\* replaceTextWithMapSync(t, d) under the compiled pattern r
Replaced(t, d, r) == replaced[t, d, r]

\* A store is the part of the state one synchronous pass reads and writes:
\* the tree values, the ledger and the mutation records it causes.
Store(txt, at, otm, oam, rec) ==
    [text |-> txt, attr |-> at, otm |-> otm, oam |-> oam, rec |-> rec]

CurrentStore == Store(text, attr, originalTextMap, originalAttrMap, records)

\* the order-preserving set of touched nodes (content.js 339-349)
AppendNew(seq, n) == IF \E i \in 1..Len(seq) : seq[i] = n THEN seq ELSE Append(seq, n)

RECURSIVE AppendAll(_, _, _)
\* append the nodes of S to seq in the order given by `order`
AppendAll(seq, order, S) ==
    IF order = <<>> THEN seq
    ELSE AppendAll(IF Head(order) \in S THEN AppendNew(seq, Head(order)) ELSE seq,
                   Tail(order), S)

\* a write to node n is reported to the observer when one is installed and
\* n is inside document.body at the time of the write
Observed(obs, n) == obs /\ isConnected(n)

\* saveOriginalTextNode without its `has` guard: every call records anew
saveOriginalTextNode_overwrite(otm, node, value) == [otm EXCEPT ![node] = value]

\* saveOriginalTextNode                                    content.js 57-62
saveOriginalTextNode(otm, node, value) ==
    IF otm[node] = NoEntry THEN [otm EXCEPT ![node] = value] ELSE otm

\* saveOriginalAttribute                                   content.js 64-71
saveOriginalAttribute(oam, el, attrName, value) ==
    IF oam[el][attrName] = NoEntry THEN [oam EXCEPT ![el][attrName] = value] ELSE oam

\* runEmotionFilterOnNode without the try/catch around each update: the
\* first write that throws ends the loop, later leaves stay as they were
runEmotionFilterOnNode_abort(s, root, map, re, obs) ==
    IF Len(map) = 0 THEN s
    ELSE LET toUpdate == {l \in WalkedLeaves(parent, s.text, root) :
                            Replaced(s.text[l], map, re) # s.text[l]}
             pos(n) == CHOOSE i \in 1..Len(DocOrder) : DocOrder[i] = n
             written == {l \in toUpdate :
                            \A f \in toUpdate \cap faulty : pos(l) < pos(f)}
         IN  [s EXCEPT
                !.otm = [l \in Leaves |->
                            IF l \in toUpdate
                            THEN saveOriginalTextNode(s.otm, l, s.text[l])[l]
                            ELSE s.otm[l]],
                !.text = [l \in Leaves |->
                            IF l \in written
                            THEN Replaced(s.text[l], map, re)
                            ELSE s.text[l]],
                !.rec = AppendAll(s.rec, DocOrder,
                                  {l \in written : Observed(obs, l)})]

\* runEmotionFilterOnNode recording the ledger entry after the write, that
\* is, recording the substituted text
runEmotionFilterOnNode_saveAfter(s, root, map, re, obs) ==
    IF Len(map) = 0 THEN s
    ELSE LET toUpdate == {l \in WalkedLeaves(parent, s.text, root) :
                            Replaced(s.text[l], map, re) # s.text[l]}
             written == toUpdate \ faulty
         IN  [s EXCEPT
                !.otm = [l \in Leaves |->
                            IF l \in toUpdate
                            THEN saveOriginalTextNode(s.otm, l,
                                    Replaced(s.text[l], map, re))[l]
                            ELSE s.otm[l]],
                !.text = [l \in Leaves |->
                            IF l \in written
                            THEN Replaced(s.text[l], map, re)
                            ELSE s.text[l]],
                !.rec = AppendAll(s.rec, DocOrder,
                                  {l \in written : Observed(obs, l)})]

\* runEmotionFilterOnNode                                content.js 402-435
runEmotionFilterOnNode(s, root, map, re, obs) ==
    IF Len(map) = 0 THEN s
    ELSE LET toUpdate == {l \in WalkedLeaves(parent, s.text, root) :
                            Replaced(s.text[l], map, re) # s.text[l]}
             written == toUpdate \ faulty
         IN  [s EXCEPT
                !.otm = [l \in Leaves |->
                            IF l \in toUpdate
                            THEN saveOriginalTextNode(s.otm, l, s.text[l])[l]
                            ELSE s.otm[l]],
                !.text = [l \in Leaves |->
                            IF l \in written
                            THEN Replaced(s.text[l], map, re)
                            ELSE s.text[l]],
                !.rec = AppendAll(s.rec, DocOrder,
                                  {l \in written : Observed(obs, l)})]

\* the attribute loop shared by applyMapToNodeOrSubtree (lines 309-321) and
\* applyAttributesOnDocument (lines 458-474), for one element
ApplyAttributes(s, el, map, re, obs) ==
    IF el \notin AttrElements THEN s
    ELSE LET changed == {a \in AttrNames \cap EMOTION_ATTRIBUTES :
                            /\ s.attr[el][a] # NoAttr
                            /\ s.attr[el][a] # ""
                            /\ Replaced(s.attr[el][a], map, re) # s.attr[el][a]}
         IN  IF changed = {} THEN s
             ELSE [s EXCEPT
                    !.oam = [s.oam EXCEPT ![el] = [a \in AttrNames |->
                                IF a \in changed
                                THEN saveOriginalAttribute(s.oam, el, a, s.attr[el][a])[el][a]
                                ELSE s.oam[el][a]]],
                    !.attr = IF el \in faulty THEN s.attr
                             ELSE [s.attr EXCEPT ![el] =
                                     [a \in AttrNames |->
                                        IF a \in changed
                                        THEN Replaced(s.attr[el][a], map, re)
                                        ELSE s.attr[el][a]]],
                    !.rec = IF el \notin faulty /\ Observed(obs, el)
                            THEN AppendNew(s.rec, el) ELSE s.rec]

\* applyEmotionFilter                                    content.js 438-452
\* (the universe has no shadow roots: the element walker finds none)
applyEmotionFilter(s, map, re, obs) == runEmotionFilterOnNode(s, "body", map, re, obs)

\* applyAttributesOnDocument                             content.js 455-478
RECURSIVE ApplyAttributesSeq(_, _, _, _, _)
ApplyAttributesSeq(s, els, map, re, obs) ==
    IF els = <<>> THEN s
    ELSE ApplyAttributesSeq(
            IF Head(els) \in Elements /\ isConnected(Head(els))
            THEN ApplyAttributes(s, Head(els), map, re, obs) ELSE s,
            Tail(els), map, re, obs)

applyAttributesOnDocument(s, map, re, obs) == ApplyAttributesSeq(s, DocOrder, map, re, obs)

\* applyMapToNodeOrSubtree whose text-node branch forgets the ledger
applyMapToNodeOrSubtree_noSave(s, node, map, re, obs) ==
    IF Len(map) = 0 THEN s
    ELSE IF node \in Leaves THEN
        LET newText == Replaced(s.text[node], map, re)
        IN  IF newText = s.text[node] THEN s
            ELSE [s EXCEPT
                    !.text = IF node \in faulty THEN s.text
                             ELSE [s.text EXCEPT ![node] = newText],
                    !.rec = IF node \notin faulty /\ Observed(obs, node)
                            THEN AppendNew(s.rec, node) ELSE s.rec]
    ELSE ApplyAttributes(runEmotionFilterOnNode(s, node, map, re, obs),
                         node, map, re, obs)

\* applyMapToNodeOrSubtree                               content.js 295-324
applyMapToNodeOrSubtree(s, node, map, re, obs) ==
    IF Len(map) = 0 THEN s
    ELSE IF node \in Leaves THEN
        LET newText == Replaced(s.text[node], map, re)
        IN  IF newText = s.text[node] THEN s
            ELSE [s EXCEPT
                    !.otm = saveOriginalTextNode(s.otm, node, s.text[node]),
                    !.text = IF node \in faulty THEN s.text
                             ELSE [s.text EXCEPT ![node] = newText],
                    !.rec = IF node \notin faulty /\ Observed(obs, node)
                            THEN AppendNew(s.rec, node) ELSE s.rec]
    ELSE ApplyAttributes(runEmotionFilterOnNode(s, node, map, re, obs),
                         node, map, re, obs)

\* the debounced callback (content.js 331-335): every touched node in turn
RECURSIVE scheduledApply(_, _, _, _, _)
scheduledApply(s, nodes, map, re, obs) ==
    IF nodes = <<>> THEN s
    ELSE scheduledApply(applyMapToNodeOrSubtree(s, Head(nodes), map, re, obs),
                        Tail(nodes), map, re, obs)

\* restoreReplacements without the isConnected tests: detached nodes are
\* written too
restoreReplacements_detached(s) ==
    [s EXCEPT
        !.text = [l \in Leaves |->
                    IF s.otm[l] # NoEntry /\ l \notin faulty
                    THEN s.otm[l] ELSE s.text[l]],
        !.attr = [el \in AttrElements |->
                    IF el \notin faulty
                    THEN [a \in AttrNames |->
                            IF s.oam[el][a] # NoEntry THEN s.oam[el][a]
                            ELSE s.attr[el][a]]
                    ELSE s.attr[el]],
        !.otm = [l \in Leaves |-> NoEntry],
        !.oam = [el \in AttrElements |-> [a \in AttrNames |-> NoEntry]]]

\* restoreReplacements deleting an entry only when its write-back succeeded
\* and never clearing the maps
restoreReplacements_keepFailed(s) ==
    [s EXCEPT
        !.text = [l \in Leaves |->
                    IF s.otm[l] # NoEntry /\ isConnected(l) /\ l \notin faulty
                    THEN s.otm[l] ELSE s.text[l]],
        !.attr = [el \in AttrElements |->
                    IF isConnected(el) /\ el \notin faulty
                    THEN [a \in AttrNames |->
                            IF s.oam[el][a] # NoEntry THEN s.oam[el][a]
                            ELSE s.attr[el][a]]
                    ELSE s.attr[el]],
        !.otm = [l \in Leaves |->
                    IF isConnected(l) /\ l \in faulty THEN s.otm[l] ELSE NoEntry],
        !.oam = [el \in AttrElements |->
                    IF isConnected(el) /\ el \in faulty THEN s.oam[el]
                    ELSE [a \in AttrNames |-> NoEntry]]]

\* restoreReplacements walking every text leaf instead of the ledger's
\* entries: a leaf without an entry gets the empty string
restoreReplacements_all(s) ==
    [s EXCEPT
        !.text = [l \in Leaves |->
                    IF isConnected(l) /\ l \notin faulty
                    THEN (IF s.otm[l] # NoEntry THEN s.otm[l] ELSE "")
                    ELSE s.text[l]],
        !.attr = [el \in AttrElements |->
                    IF isConnected(el) /\ el \notin faulty
                    THEN [a \in AttrNames |->
                            IF s.oam[el][a] # NoEntry THEN s.oam[el][a]
                            ELSE s.attr[el][a]]
                    ELSE s.attr[el]],
        !.otm = [l \in Leaves |-> NoEntry],
        !.oam = [el \in AttrElements |-> [a \in AttrNames |-> NoEntry]]]

\* restoreReplacements                                    content.js 73-118
\* A write-back that throws leaves the node as it is; the maps are cleared
\* at the end whatever happened to the single entries (lines 111-112).
restoreReplacements(s) ==
    [s EXCEPT
        !.text = [l \in Leaves |->
                    IF s.otm[l] # NoEntry /\ isConnected(l) /\ l \notin faulty
                    THEN s.otm[l] ELSE s.text[l]],
        !.attr = [el \in AttrElements |->
                    IF isConnected(el) /\ el \notin faulty
                    THEN [a \in AttrNames |->
                            IF s.oam[el][a] # NoEntry THEN s.oam[el][a]
                            ELSE s.attr[el][a]]
                    ELSE s.attr[el]],
        !.otm = [l \in Leaves |-> NoEntry],
        !.oam = [el \in AttrElements |-> [a \in AttrNames |-> NoEntry]]]

\* ------------------------------------------------------------------------
\* Environment and control state
\* ------------------------------------------------------------------------
VARIABLES
    sync_aware,         \* chrome.storage.sync aura_emotion_aware
    sync_map,           \* chrome.storage.sync aura_emotion_map
    changesQ,           \* storage.onChanged events not yet delivered
    initDone,           \* the initial loadEmotionMapFromStorage callback has run
    pipes,              \* runEmotionReplacePipeline instances per await point
    extBudget,          \* external tree mutations still allowed
    evtBudget           \* external storage writes and messages still allowed

\* History variables: they record what the properties speak about and are
\* read by no action's guard or effect.
VARIABLES
    lastOp,             \* [op, tags] of the last step
    offSince,           \* a disable handler has run and no enable came since
    firstOrigText,      \* leaf -> value before the engine's first write since restore
    firstOrigAttr,      \* element -> attribute -> likewise
    resub,              \* leaves the engine wrote more than once since restore
    expText,            \* right after a restore: what attached leaves must hold
    expAttr,
    rt,                 \* progress of a pass-then-restore round trip
    snapText,           \* the tree before that pass
    snapAttr,
    extWritten,         \* substituted leaves external code rewrote since the engine's write
    awaiting,           \* attached nodes the observer saw touched and no pass has handled since
    inserted            \* attached subtree roots inserted under the watcher since the last full pass

\* Variables of the function-level specification SpecFn
VARIABLES
    fnCall,             \* the entry point called last and its arguments
    fnOut,              \* what it returned
    reader,             \* index, highlight wrappers and last call of the reading aid
    style               \* isEnabled, currentProfile, the injected override styles and
                        \* the injection tasks still pending

domVars == <<parent, text, attr>>
engineVars == <<originalTextMap, originalAttrMap, AURA_MAP, AURA_RE, observer,
                shadowWatcher, records, timers, deferred, faulty>>
envVars == <<sync_aware, sync_map, changesQ, initDone, pipes, extBudget, evtBudget>>
histVars == <<lastOp, offSince, firstOrigText, firstOrigAttr, resub, expText,
              expAttr, rt, snapText, snapAttr, extWritten, awaiting, inserted>>
\* The background service worker (src/background.js)
VARIABLES
    adBlockEnabled,     \* the in-memory flags of the service worker
    darkModeEnabled,
    isNightTime,
    storage,            \* chrome.storage: local adBlockEnabled and darkModeEnabled,
                        \* sync aura_enabled; each "unset", "true" or "false"
    ruleset,            \* the enabled state last requested for the ad-block ruleset
    tabCss,             \* the tabs that hold the dark-mode CSS
    tasks,              \* the async handlers started so far, each with its position
    ask,                \* the closure state of one askTabForSections call
    opBudget            \* messages, commands and clock ticks still allowed

\* The popup's speech queue (popup script, src/unnamed/part_000)
VARIABLES
    utteranceQueue,     \* the chunks of the text being read
    currentChunkIndex,
    playControls,       \* playControls.style.display
    tts,                \* the speech engine: the utterance being spoken, the events
                        \* on their way to the popup and the log of what was handed over
    splitCall           \* the last splitText call: its input and the chunks returned

bgVars == <<adBlockEnabled, darkModeEnabled, isNightTime, storage, ruleset, tabCss,
            tasks, ask, opBudget>>
ttsVars == <<utteranceQueue, currentChunkIndex, playControls, tts, splitCall>>
sideVars == <<bgVars, ttsVars>>
fnVars == <<fnCall, fnOut, reader, style, sideVars>>
vars == <<domVars, engineVars, envVars, histVars, fnVars, replaced>>

\* ------------------------------------------------------------------------
\* Accessibility profile styles                     content.js 764-867
\* ------------------------------------------------------------------------
\* A profile is named by the CSS it builds; NoProfile stands for null/undefined.
StyleProfiles == {"large", "contrast"}
NoProfile == Null

\* style.micro holds the microtasks queued by the running task; it is empty
\* between tasks (runMicrotasks drains it when the task ends).
NoStyle ==
    [isEnabled |-> TRUE, currentProfile |-> NoProfile,
     globalStyle |-> NoProfile, shadowStyle |-> NoProfile, shadowHost |-> FALSE,
     aura_profile |-> NoProfile, aura_enabled |-> TRUE,
     micro |-> <<>>, inject40 |-> <<>>, inject100 |-> 0, gets |-> <<>>]

\* injectGlobalStyle                                   content.js 764-783
injectGlobalStyle(s, profile) ==
    IF profile = NoProfile THEN s ELSE [s EXCEPT !.globalStyle = profile]

\* injectIntoShadowRoots: a root that already holds the style is skipped
\*                                                     content.js 785-820
injectIntoShadowRoots(s, profile) ==
    IF profile = NoProfile \/ ~s.shadowHost \/ s.shadowStyle # NoProfile THEN s
    ELSE [s EXCEPT !.shadowStyle = profile]

\* removeInjectedStyles: document.getElementById / document.querySelectorAll
\* search the document tree, which a shadow root's content is not part of
\*                                                     content.js 822-828
removeInjectedStyles(s) == [s EXCEPT !.globalStyle = NoProfile]

\* applyProfileToDocument up to the point where it queues the injection
\*                                                     content.js 831-867
applyProfileToDocument(s, profile) ==
    IF profile = NoProfile THEN s
    ELSE LET c == removeInjectedStyles([s EXCEPT !.currentProfile = profile])
         IN  IF ~c.isEnabled THEN c
             ELSE [c EXCEPT !.micro = Append(@, profile)]

\* the queued injection: the global style now, the shadow roots 40 ms later
\*                                                     content.js 845-862
injectionMicrotask(s, profile) ==
    [injectGlobalStyle(s, profile) EXCEPT !.inject40 = Append(@, profile)]

\* the microtask checkpoint at the end of a task
RECURSIVE runMicrotasks(_)
runMicrotasks(s) ==
    IF s.micro = <<>> THEN s
    ELSE runMicrotasks(injectionMicrotask([s EXCEPT !.micro = Tail(@)], Head(s.micro)))

\* the aura_enabled branch of the storage.onChanged listener: the style part
\*                                                     content.js 1118-1132
enabledChanged(s, enabled) ==
    LET e == [s EXCEPT !.isEnabled = enabled]
    IN  IF ~enabled THEN removeInjectedStyles(e)
        ELSE IF e.currentProfile # NoProfile
             THEN applyProfileToDocument(e, e.currentProfile)
             ELSE [e EXCEPT !.gets = Append(@, "aura_profile")]

\* ------------------------------------------------------------------------
\* Helpers shared by the actions
\* ------------------------------------------------------------------------
Commit(s) ==
    /\ text' = s.text
    /\ attr' = s.attr
    /\ originalTextMap' = s.otm
    /\ originalAttrMap' = s.oam

WithinLen(s) ==
    /\ \A l \in Leaves : Len(s.text[l]) <= MaxTextLen
    /\ \A el \in AttrElements : \A a \in AttrNames :
          s.attr[el][a] = NoAttr \/ Len(s.attr[el][a]) <= MaxTextLen

LedgerEmpty ==
    /\ originalTextMap = EmptyLedgerText
    /\ originalAttrMap = EmptyLedgerAttr

\* a timer whose closure belongs to a discarded observer still fires
Orphaned(ts) == {[t EXCEPT !.live = FALSE] : t \in ts}

\* The mutation-observer microtask at the end of a task (content.js 337-351):
\* the touched nodes go to the observer's debounced scheduledApply, which
\* cancels its pending timer and arms a new one (debounce, lines 285-293).
debounce(ts, obs, rec) ==
    IF rec = <<>> \/ ~obs.on THEN ts
    ELSE {t \in ts : ~t.live} \cup {[nodes |-> rec, map |-> obs.map, live |-> TRUE]}

\* installEmotionMutationObserver without its early return when an observer
\* exists
installEmotionMutationObserver_noGuard(obs, map) ==
    IF Len(map) = 0 THEN obs
    ELSE [on |-> TRUE, map |-> map]

\* installEmotionMutationObserver                        content.js 326-383
installEmotionMutationObserver(obs, map) ==
    IF Len(map) = 0 THEN obs
    ELSE IF obs.on THEN obs
    ELSE [on |-> TRUE, map |-> map]

PipeCount == pipes.get + pipes.load + pipes.fallback

RestoreOps ==
    {"storageDisable", "masterDisable", "messageRestore", "pipelineDisabled",
     "initialDisabled"}

ClearSnap ==
    /\ snapText' = EmptyLedgerText
    /\ snapAttr' = NoAttrs

ClearExp ==
    /\ expText' = EmptyLedgerText
    /\ expAttr' = NoAttrs

\* history update of a step in which the engine substitutes (store s after it)
SubstHist(op, s, fullPass, off) ==
    LET changedL == {l \in Leaves : s.text[l] # text[l]}
        changedE == {el \in AttrElements : s.attr[el] # attr[el]}
        wrote == changedL # {} \/ changedE # {}
    IN  /\ lastOp' = [op |-> op,
                      tags |-> (IF wrote THEN {"wrote"} ELSE {})
                               \cup (IF wrote /\ offSince THEN {"afterOff"} ELSE {})]
        /\ offSince' = off
        /\ firstOrigText' = [l \in Leaves |->
              IF l \in changedL /\ firstOrigText[l] = NoEntry
              THEN text[l] ELSE firstOrigText[l]]
        /\ firstOrigAttr' = [el \in AttrElements |-> [a \in AttrNames |->
              IF s.attr[el][a] # attr[el][a] /\ firstOrigAttr[el][a] = NoEntry
              THEN attr[el][a] ELSE firstOrigAttr[el][a]]]
        /\ resub' = resub \cup {l \in changedL : firstOrigText[l] # NoEntry}
        /\ ClearExp
        /\ extWritten' = extWritten \ changedL
        /\ (fullPass => awaiting' = {})
        /\ inserted' = IF fullPass THEN {} ELSE inserted
        /\ IF fullPass /\ LedgerEmpty /\ wrote
           THEN rt' = "passed" /\ snapText' = text /\ snapAttr' = attr
           ELSE IF wrote THEN rt' = "none" /\ ClearSnap
           ELSE UNCHANGED <<rt, snapText, snapAttr>>

\* history update of a step that runs restoreReplacements (store s after it)
RestoreHist(op, s) ==
    LET wrote == s.text # text \/ s.attr # attr
        entries == {l \in Leaves : originalTextMap[l] # NoEntry}
                     \cup {el \in AttrElements : originalAttrMap[el] # EmptyLedgerAttr[el]}
        tags == (IF wrote THEN {"wrote"} ELSE {})
                \cup (IF LedgerEmpty THEN {"ledgerEmpty"} ELSE {})
                \cup (IF \E n \in entries : ~isConnected(n) THEN {"detachedEntry"} ELSE {})
                \cup (IF \E n \in entries : isConnected(n) THEN {"attachedEntry"} ELSE {})
                \cup (IF \E n \in entries : n \in faulty /\ isConnected(n)
                      THEN {"failedWrite"} ELSE {})
                \cup (IF lastOp.op \in RestoreOps THEN {"afterRestore"} ELSE {})
                \cup (IF \E l \in resub : isConnected(l) THEN {"resub"} ELSE {})
                \cup (IF \E l \in extWritten : s.text[l] # text[l]
                      THEN {"overwroteExternal"} ELSE {})
    IN  /\ lastOp' = [op |-> op, tags |-> tags]
        /\ offSince' = TRUE
        /\ firstOrigText' = EmptyLedgerText
        /\ firstOrigAttr' = NoAttrs
        /\ resub' = {}
        /\ expText' = [l \in Leaves |->
              IF isConnected(l) THEN firstOrigText[l] ELSE NoEntry]
        /\ expAttr' = [el \in AttrElements |-> [a \in AttrNames |->
              IF isConnected(el) THEN firstOrigAttr[el][a] ELSE NoEntry]]
        /\ extWritten' = {}
        /\ awaiting' = {}
        /\ inserted' = {}
        /\ IF rt = "passed" THEN rt' = "restored" /\ UNCHANGED <<snapText, snapAttr>>
           ELSE IF wrote THEN rt' = "none" /\ ClearSnap
           ELSE UNCHANGED <<rt, snapText, snapAttr>>

\* history update of a step that writes nothing to the tree
IdleHist(op, off) ==
    /\ lastOp' = [op |-> op, tags |-> {}]
    /\ offSince' = off
    /\ ClearExp
    /\ UNCHANGED <<firstOrigText, firstOrigAttr, resub, rt, snapText, snapAttr, extWritten>>
    /\ UNCHANGED <<awaiting, inserted>>

\* history update of an external mutation of the tree
ExternalHist(op, rewritten) ==
    /\ lastOp' = [op |-> op, tags |-> {}]
    /\ ClearExp
    /\ rt' = "none"
    /\ ClearSnap
    /\ extWritten' = extWritten \cup rewritten
    /\ awaiting' =
          {n \in awaiting \cup {records'[i] : i \in 1..Len(records')} :
              /\ IsConnectedIn(parent', n)
              /\ (n \in Leaves => ~InExcluded(parent', n))}
    /\ inserted' =
          {n \in inserted \cup {m \in Movable : observer.on /\ parent[m] = NoParent
                                                  /\ parent'[m] # NoParent} :
              IsConnectedIn(parent', n)}
    /\ UNCHANGED <<offSince, firstOrigText, firstOrigAttr, resub>>

\* ------------------------------------------------------------------------
\* External code mutating the tree.  With the observer installed, a mutation
\* inside document.body queues a record for it (observe options, lines
\* 353-359); the records of one external task are delivered together.
\* ------------------------------------------------------------------------
Queue(n) ==
    records' = IF observer.on /\ IsConnectedIn(parent', n)
               THEN AppendNew(records, n) ELSE records

ExtSetText(l, v) ==
    /\ extBudget > 0
    /\ text[l] # v
    /\ text' = [text EXCEPT ![l] = v]
    /\ UNCHANGED <<parent, attr>>
    /\ Queue(l)
    /\ extBudget' = extBudget - 1
    /\ ExternalHist("extSetText", IF originalTextMap[l] # NoEntry THEN {l} ELSE {})
    /\ UNCHANGED <<originalTextMap, originalAttrMap, AURA_MAP, AURA_RE, observer,
                   shadowWatcher, timers, deferred, faulty>>
    /\ UNCHANGED <<sync_aware, sync_map, changesQ, initDone, pipes, evtBudget>>
    /\ UNCHANGED <<fnVars, replaced>>

ExtSetAttr(el, a, v) ==
    /\ extBudget > 0
    /\ attr[el][a] # v
    /\ attr' = [attr EXCEPT ![el][a] = v]
    /\ UNCHANGED <<parent, text>>
    /\ IF a \in EMOTION_ATTRIBUTES THEN Queue(el) ELSE UNCHANGED records
    /\ extBudget' = extBudget - 1
    /\ ExternalHist("extSetAttr", {})
    /\ UNCHANGED <<originalTextMap, originalAttrMap, AURA_MAP, AURA_RE, observer,
                   shadowWatcher, timers, deferred, faulty>>
    /\ UNCHANGED <<sync_aware, sync_map, changesQ, initDone, pipes, evtBudget>>
    /\ UNCHANGED <<fnVars, replaced>>

\* removal: the record carries removedNodes only, nothing is touched
ExtDetach(n) ==
    /\ extBudget > 0
    /\ parent[n] # NoParent
    /\ parent' = [parent EXCEPT ![n] = NoParent]
    /\ UNCHANGED <<text, attr, records>>
    /\ extBudget' = extBudget - 1
    /\ ExternalHist("extDetach", {})
    /\ UNCHANGED <<originalTextMap, originalAttrMap, AURA_MAP, AURA_RE, observer,
                   shadowWatcher, timers, deferred, faulty>>
    /\ UNCHANGED <<sync_aware, sync_map, changesQ, initDone, pipes, evtBudget>>
    /\ UNCHANGED <<fnVars, replaced>>

\* insertion of a node removed before (it needs no budget of its own): the
\* record's addedNodes holds the inserted node
ExtAttach(n) ==
    /\ parent[n] = NoParent
    /\ parent' = [parent EXCEPT ![n] = HomeOf[n]]
    /\ UNCHANGED <<text, attr>>
    /\ Queue(n)
    /\ UNCHANGED extBudget
    /\ ExternalHist("extAttach", {})
    /\ UNCHANGED <<originalTextMap, originalAttrMap, AURA_MAP, AURA_RE, observer,
                   shadowWatcher, timers, deferred, faulty>>
    /\ UNCHANGED <<sync_aware, sync_map, changesQ, initDone, pipes, evtBudget>>
    /\ UNCHANGED <<fnVars, replaced>>

\* the observer callback for the records of an external task
DeliverMutations ==
    /\ records # <<>>
    /\ timers' = debounce(timers, observer, records)
    /\ records' = <<>>
    /\ IdleHist("deliver", offSince)
    /\ UNCHANGED domVars
    /\ UNCHANGED <<originalTextMap, originalAttrMap, AURA_MAP, AURA_RE, observer,
                   shadowWatcher, deferred, faulty>>
    /\ UNCHANGED envVars
    /\ UNCHANGED <<fnVars, replaced>>

\* ------------------------------------------------------------------------
\* Engine tasks.  A task runs only when no mutation record is waiting: the
\* observer microtask of the task that queued it comes first.
\* ------------------------------------------------------------------------

\* One full pass: applyEmotionFilter, applyAttributesOnDocument and
\* installEmotionMutationObserver with `map`, under pattern `re`
\* (content.js 627-629, 643-645, 670-672).
FullPass(op, map, re) ==
    LET obs == observer.on
        s == applyAttributesOnDocument(
                 applyEmotionFilter(CurrentStore, map, re, obs), map, re, obs)
    IN  /\ WithinLen(s)
        /\ Commit(s)
        /\ AURA_RE' = CompiledFor(re, map)
        /\ observer' = installEmotionMutationObserver(observer, map)
        /\ shadowWatcher' = observer'.on
        /\ timers' = debounce(timers, observer, s.rec)
        /\ records' = <<>>
        /\ SubstHist(op, s, TRUE, FALSE)

\* the restore handlers without uninstallEmotionMutationObserver(): the
\* observer stays installed and sees the write-backs
RestoreAndUninstall_noUninstall(op) ==
    LET s == restoreReplacements(CurrentStore)
    IN  /\ Commit(s)
        /\ UNCHANGED <<observer, shadowWatcher>>
        /\ timers' = debounce(timers, observer, s.rec)
        /\ records' = <<>>
        /\ RestoreHist(op, s)

\* restoreReplacements() and uninstallEmotionMutationObserver() in either
\* order; disconnect() drops the records the write-backs queued
RestoreAndUninstall(op) ==
    LET s == restoreReplacements(CurrentStore)
    IN  /\ Commit(s)
        /\ observer' = NoObserver
        /\ shadowWatcher' = FALSE
        /\ records' = <<>>
        /\ timers' = Orphaned(timers)
        /\ RestoreHist(op, s)

\* the initial loadEmotionMapFromStorage callback        content.js 637-654
InitialRun ==
    /\ ~initDone
    /\ records = <<>>
    /\ initDone' = TRUE
    /\ IF sync_aware /\ Len(sync_map) > 0 THEN
            /\ AURA_MAP' = NormalizeMap(sync_map)
            /\ FullPass("initialPass", AURA_MAP', buildRegexFromMap(AURA_MAP'))
            /\ UNCHANGED <<pipes, deferred>>
       ELSE IF sync_aware THEN
            /\ PipeCount < MaxPipelines
            /\ pipes' = [pipes EXCEPT !.get = @ + 1]
            /\ IdleHist("initialPipeline", FALSE)
            /\ UNCHANGED <<text, attr, originalTextMap, originalAttrMap, AURA_MAP,
                           AURA_RE, observer, shadowWatcher, records, timers, deferred>>
       ELSE
            /\ RestoreAndUninstall("initialDisabled")
            /\ UNCHANGED <<AURA_MAP, AURA_RE, pipes, deferred>>
    /\ UNCHANGED <<parent, faulty, sync_aware, sync_map, changesQ, extBudget, evtBudget>>
    /\ UNCHANGED <<fnVars, replaced>>

\* external code (the extension's UI) writing the emotion keys of
\* chrome.storage.sync; onChanged reports the keys whose value changed.
\* A change is [aware, map]: <<>> for a key not in `changes`, else <<newValue>>.
ExtStorageSet(aw, mp) ==
    LET c == [aware |-> IF aw # <<>> /\ aw[1] # sync_aware THEN aw ELSE <<>>,
              map |-> IF mp # <<>> /\ mp[1] # sync_map THEN mp ELSE <<>>]
    IN  /\ evtBudget > 0
        /\ Len(changesQ) < MaxChanges
        /\ c.aware # <<>> \/ c.map # <<>>
        /\ sync_aware' = IF c.aware # <<>> THEN c.aware[1] ELSE sync_aware
        /\ sync_map' = IF c.map # <<>> THEN c.map[1] ELSE sync_map
        /\ changesQ' = Append(changesQ, c)
        /\ evtBudget' = evtBudget - 1
        /\ IdleHist("extStorageSet", offSince /\ c.aware # <<TRUE>>)
        /\ UNCHANGED domVars
        /\ UNCHANGED engineVars
        /\ UNCHANGED <<initDone, pipes, extBudget>>
        /\ UNCHANGED <<fnVars, replaced>>

\* the storage.onChanged listener for the emotion keys  content.js 657-688
StorageChanged ==
    /\ changesQ # <<>>
    /\ records = <<>>
    /\ LET c == Head(changesQ)
           enabled == IF c.aware # <<>> THEN c.aware[1] ELSE ls_aware
           map == IF c.map # <<>> THEN c.map[1] ELSE ls_map
       IN  /\ changesQ' = Tail(changesQ)
           /\ IF enabled /\ Len(map) > 0 THEN
                  /\ deferred < MaxDeferred
                  /\ AURA_MAP' = NormalizeMap(map)
                  /\ AURA_RE' = buildRegexFromMap(AURA_MAP')
                  /\ deferred' = deferred + 1
                  /\ IdleHist("storageEnable", FALSE)
                  /\ UNCHANGED <<text, attr, originalTextMap, originalAttrMap, observer,
                                 shadowWatcher, records, timers, pipes>>
              ELSE IF enabled THEN
                  /\ PipeCount < MaxPipelines
                  /\ pipes' = [pipes EXCEPT !.get = @ + 1]
                  /\ IdleHist("storagePipeline", FALSE)
                  /\ UNCHANGED <<text, attr, originalTextMap, originalAttrMap, AURA_MAP,
                                 AURA_RE, observer, shadowWatcher, records, timers, deferred>>
              ELSE
                  /\ RestoreAndUninstall("storageDisable")
                  /\ UNCHANGED <<AURA_MAP, AURA_RE, pipes, deferred>>
    /\ UNCHANGED <<parent, faulty, sync_aware, sync_map, initDone, extBudget, evtBudget>>
    /\ UNCHANGED <<fnVars, replaced>>

\* the 60 ms timer armed by the listener                 content.js 669-673
DeferredApply ==
    /\ deferred > 0
    /\ records = <<>>
    /\ deferred' = deferred - 1
    /\ FullPass("deferredApply", AURA_MAP, AURA_RE)
    /\ UNCHANGED <<parent, faulty, AURA_MAP>>
    /\ UNCHANGED envVars
    /\ UNCHANGED <<fnVars, replaced>>

\* a debounced scheduledApply timer firing                content.js 331-335
DebouncedApply(t) ==
    /\ records = <<>>
    /\ LET obs == observer.on
           s == scheduledApply(CurrentStore, t.nodes, t.map, AURA_RE, obs)
       IN  /\ WithinLen(s)
           /\ Commit(s)
           /\ AURA_RE' = CompiledFor(AURA_RE, t.map)
           /\ timers' = debounce(timers \ {t}, observer, s.rec)
           /\ records' = <<>>
           /\ SubstHist("debouncedApply", s, FALSE, offSince)
           /\ awaiting' = {n \in awaiting :
                              \A i \in 1..Len(t.nodes) : ~InSubtreeIn(parent, t.nodes[i], n)}
    /\ UNCHANGED <<parent, faulty, AURA_MAP, observer, shadowWatcher, deferred>>
    /\ UNCHANGED envVars
    /\ UNCHANGED <<fnVars, replaced>>

\* the aura_enabled listener turning the extension off   content.js 1120-1126
MasterDisable ==
    /\ evtBudget > 0
    /\ records = <<>>
    /\ evtBudget' = evtBudget - 1
    /\ RestoreAndUninstall("masterDisable")
    /\ style' = runMicrotasks(enabledChanged([style EXCEPT !.aura_enabled = FALSE], FALSE))
    /\ UNCHANGED <<parent, faulty, AURA_MAP, AURA_RE, deferred>>
    /\ UNCHANGED <<sync_aware, sync_map, changesQ, initDone, pipes, extBudget>>
    /\ UNCHANGED <<fnCall, fnOut, reader, replaced, sideVars>>

\* message AURA_RUN_EMOTION_RESTORE / AURA_TURN_OFF_EMOTION content.js 928-937
MessageRestore ==
    /\ evtBudget > 0
    /\ records = <<>>
    /\ evtBudget' = evtBudget - 1
    /\ RestoreAndUninstall("messageRestore")
    /\ sync_aware' = FALSE
    /\ IF sync_aware
       THEN /\ Len(changesQ) < MaxChanges
            /\ changesQ' = Append(changesQ, [aware |-> <<FALSE>>, map |-> <<>>])
       ELSE UNCHANGED changesQ
    /\ UNCHANGED <<parent, faulty, AURA_MAP, AURA_RE, deferred>>
    /\ UNCHANGED <<sync_map, initDone, pipes, extBudget>>
    /\ UNCHANGED <<fnVars, replaced>>

\* message AURA_RUN_EMOTION_FILTER and its aliases        content.js 917-925
MessageRunFilter ==
    /\ evtBudget > 0
    /\ records = <<>>
    /\ PipeCount < MaxPipelines
    /\ evtBudget' = evtBudget - 1
    /\ pipes' = [pipes EXCEPT !.get = @ + 1]
    /\ IdleHist("messageRunFilter", FALSE)
    /\ UNCHANGED domVars
    /\ UNCHANGED engineVars
    /\ UNCHANGED <<sync_aware, sync_map, changesQ, initDone, extBudget>>
    /\ UNCHANGED <<fnVars, replaced>>

\* runEmotionReplacePipeline resuming after getStored()  content.js 584-593
PipelineStored ==
    /\ pipes.get > 0
    /\ records = <<>>
    /\ IF ~sync_aware THEN
            /\ pipes' = [pipes EXCEPT !.get = @ - 1]
            /\ RestoreAndUninstall("pipelineDisabled")
            /\ UNCHANGED <<AURA_MAP, AURA_RE>>
       ELSE IF Len(sync_map) > 0 THEN
            /\ pipes' = [pipes EXCEPT !.get = @ - 1]
            /\ AURA_MAP' = NormalizeMap(sync_map)
            /\ FullPass("pipelinePass", AURA_MAP', buildRegexFromMap(AURA_MAP'))
       ELSE
            /\ pipes' = [pipes EXCEPT !.get = @ - 1, !.load = @ + 1]
            /\ IdleHist("pipelineLoad", offSince)
            /\ UNCHANGED <<text, attr, originalTextMap, originalAttrMap, AURA_MAP,
                           AURA_RE, observer, shadowWatcher, records, timers>>
    /\ UNCHANGED <<parent, faulty, deferred>>
    /\ UNCHANGED <<sync_aware, sync_map, changesQ, initDone, extBudget, evtBudget>>
    /\ UNCHANGED <<fnVars, replaced>>

\* loadMapping() settling: the fetch of the packaged file gave `m`, which is
\* saved to storage (content.js 545-553), and the pipeline goes on (598-629)
PipelineFetched(m) ==
    /\ pipes.load > 0
    /\ records = <<>>
    /\ pipes' = [pipes EXCEPT !.load = @ - 1]
    /\ sync_map' = m
    /\ IF m # sync_map
       THEN /\ Len(changesQ) < MaxChanges
            /\ changesQ' = Append(changesQ, [aware |-> <<>>, map |-> <<m>>])
       ELSE UNCHANGED changesQ
    /\ IF Len(m) > 0 THEN
            /\ AURA_MAP' = NormalizeMap(m)
            /\ FullPass("pipelinePass", AURA_MAP', buildRegexFromMap(AURA_MAP'))
       ELSE
            /\ IdleHist("pipelineEmpty", offSince)
            /\ UNCHANGED <<text, attr, originalTextMap, originalAttrMap, AURA_MAP,
                           AURA_RE, observer, shadowWatcher, records, timers>>
    /\ UNCHANGED <<parent, faulty, deferred>>
    /\ UNCHANGED <<sync_aware, initDone, extBudget, evtBudget>>
    /\ UNCHANGED <<fnVars, replaced>>

\* the fetch of the packaged file failing: loadMapping falls back to
\* loadMappingFromStorageOrFallback (content.js 554-557)
PipelineFetchFailed ==
    /\ pipes.load > 0
    /\ records = <<>>
    /\ pipes' = [pipes EXCEPT !.load = @ - 1, !.fallback = @ + 1]
    /\ IdleHist("pipelineFetchFailed", offSince)
    /\ UNCHANGED domVars
    /\ UNCHANGED engineVars
    /\ UNCHANGED <<sync_aware, sync_map, changesQ, initDone, extBudget, evtBudget>>
    /\ UNCHANGED <<fnVars, replaced>>

\* loadMappingFromStorageOrFallback() settling            content.js 519-540
PipelineFallback ==
    /\ pipes.fallback > 0
    /\ records = <<>>
    /\ pipes' = [pipes EXCEPT !.fallback = @ - 1]
    /\ IF Len(sync_map) > 0 THEN
            /\ AURA_MAP' = NormalizeMap(sync_map)
            /\ FullPass("pipelinePass", AURA_MAP', buildRegexFromMap(AURA_MAP'))
       ELSE
            /\ IdleHist("pipelineEmpty", offSince)
            /\ UNCHANGED <<text, attr, originalTextMap, originalAttrMap, AURA_MAP,
                           AURA_RE, observer, shadowWatcher, records, timers>>
    /\ UNCHANGED <<parent, faulty, deferred>>
    /\ UNCHANGED <<sync_aware, sync_map, changesQ, initDone, extBudget, evtBudget>>
    /\ UNCHANGED <<fnVars, replaced>>

\* ------------------------------------------------------------------------
\* The content script in a page
\* ------------------------------------------------------------------------
InitTree ==
    /\ parent = [n \in Nodes \ {"body"} |-> HomeOf[n]]
    /\ text = InitText
    /\ attr = InitAttr

InitEngine ==
    /\ originalTextMap = EmptyLedgerText
    /\ originalAttrMap = EmptyLedgerAttr
    /\ AURA_MAP = EmptyMap
    /\ AURA_RE = NoRegex
    /\ observer = NoObserver
    /\ shadowWatcher = FALSE
    /\ records = <<>>
    /\ timers = {}
    /\ deferred = 0
    /\ replaced = ReplaceTable

InitEnv ==
    /\ sync_aware \in BOOLEAN
    /\ sync_map \in {EmptyMap, DictHate}
    /\ changesQ = <<>>
    /\ initDone = FALSE
    /\ pipes = [get |-> 0, load |-> 0, fallback |-> 0]
    /\ extBudget = MaxExternal
    /\ evtBudget = MaxEvents

InitHist ==
    /\ lastOp = [op |-> "load", tags |-> {}]
    /\ offSince = FALSE
    /\ firstOrigText = EmptyLedgerText
    /\ firstOrigAttr = NoAttrs
    /\ resub = {}
    /\ expText = EmptyLedgerText
    /\ expAttr = NoAttrs
    /\ rt = "none"
    /\ snapText = EmptyLedgerText
    /\ snapAttr = NoAttrs
    /\ extWritten = {}
    /\ awaiting = {}
    /\ inserted = {}

NoCall == [fn |-> "none", text |-> "", map |-> EmptyMap, node |-> "", after |-> ""]

NoReaderCall == [fn |-> "none", a |-> 0, b |-> 0, chunk |-> "", again |-> FALSE]
NOT_FOUND == 0 - 1
NoHighlight == 0 - 1

\* the reading aid before its first index build
NoReader ==
    [buffer |-> "", nodeMap |-> <<>>, wrappers |-> <<>>, hlStart |-> NoHighlight,
     call |-> NoReaderCall, out |-> NOT_FOUND]

\* ------------------------------------------------------------------------
\* Background service worker: values and helpers            background.js
\* ------------------------------------------------------------------------
\* what chrome.tabs.query({}) returns, in order, and each tab's url
Tabs == <<"t1", "c1", "t2">>
TabUrl == [t1 |-> "https://a.example/", c1 |-> "chrome://settings/", t2 |-> "https://b.example/"]

\* the filter of the tab loops: tab.id && !tab.url.startsWith('chrome://')
\*                                                     background.js 82, 381
Eligible(tab) == ~startsWith(Chars(TabUrl[tab]), Chars("chrome://"))

\* a stored boolean; "unset" stands for undefined
Stored(b) == IF b THEN "true" ELSE "false"
\* v !== false
NotFalse(v) == v # "false"
\* !v, for v undefined, true or false
Not(v) == v # "true"

\* toggleDarkModeOnTab: insertCSS or removeCSS on one tab   background.js 61-75
toggleDarkModeOnTab(css, tabId, enable) ==
    IF enable THEN css \cup {tabId} ELSE css \ {tabId}

\* updateAdBlockRuleset: the method of the updateEnabledRulesets request
\*                                                     background.js 124-129
updateAdBlockRuleset(enabled) ==
    IF enabled THEN "enableRulesetIds" ELSE "disableRulesetIds"

\* the enabled state every reader of aura_enabled uses: res.aura_enabled !== false
\*                            popup script 82, content.js 1104 and 1119
EffectiveEnabled(v) == NotFalse(v)

RECURSIVE SkipIneligible(_)
SkipIneligible(rest) ==
    IF rest = <<>> THEN rest
    ELSE IF Eligible(Head(rest)) THEN rest
    ELSE SkipIneligible(Tail(rest))

NoTask ==
    [type |-> "none", pc |-> "done", shouldEnable |-> FALSE, rest |-> <<>>,
     val |-> "unset", resp |-> "none"]

\* askTabForSections before it is called                  background.js 221-254
NoAsk ==
    [started |-> FALSE, done |-> FALSE, timer |-> "none", callback |-> "none",
     resolved |-> <<>>]

\* the popup before any speech request
NoUtterance == [request |-> 0, index |-> 0]
NoSpeech ==
    [speaking |-> NoUtterance, paused |-> FALSE, events |-> <<>>, request |-> 0,
     log |-> <<>>]
NoSplit == [text |-> <<>>, chunks |-> <<>>]

\* the service worker and the popup at rest
InitSide ==
    /\ adBlockEnabled = TRUE
    /\ darkModeEnabled = TRUE
    /\ isNightTime = FALSE
    /\ storage = [adBlockEnabled |-> "unset", darkModeEnabled |-> "unset",
                  aura_enabled |-> "unset"]
    /\ ruleset = updateAdBlockRuleset(TRUE)
    /\ tabCss = {}
    /\ tasks = <<>>
    /\ ask = NoAsk
    /\ opBudget = 0
    /\ utteranceQueue = <<>>
    /\ currentChunkIndex = 0
    /\ playControls = "none"
    /\ tts = NoSpeech
    /\ splitCall = NoSplit

InitFn ==
    /\ fnCall = NoCall
    /\ fnOut = ""
    /\ reader = NoReader
    /\ style = NoStyle
    /\ InitSide

Init ==
    /\ InitTree
    /\ InitEngine
    /\ faulty = {}
    /\ InitEnv
    /\ InitHist
    /\ InitFn

External ==
    \/ \E l \in Leaves : \E v \in ExtTexts : ExtSetText(l, v)
    \/ \E el \in AttrElements : \E a \in AttrNames : \E v \in ExtAttrs : ExtSetAttr(el, a, v)
    \/ \E n \in Movable : ExtDetach(n)
    \/ \E n \in Movable : ExtAttach(n)
    \/ \E aw \in {<<>>, <<TRUE>>, <<FALSE>>} :
          \E mp \in {<<>>, <<EmptyMap>>} \cup {<<d>> : d \in Dicts} : ExtStorageSet(aw, mp)
    \/ MasterDisable
    \/ MessageRestore
    \/ MessageRunFilter

Engine ==
    \/ InitialRun
    \/ DeliverMutations
    \/ StorageChanged
    \/ DeferredApply
    \/ \E t \in timers : DebouncedApply(t)
    \/ PipelineStored
    \/ \E m \in FileMaps : PipelineFetched(m)
    \/ PipelineFetchFailed
    \/ PipelineFallback

Next == External \/ Engine

Spec == Init /\ [][Next]_vars

\* ------------------------------------------------------------------------
\* The entry points called directly, one call per step, on a page whose
\* leaves hold texts of FnTexts
\* ------------------------------------------------------------------------
SubstEntryPoints ==
    {"replaceTextWithMapSync", "runEmotionFilterOnNode", "applyMapToNodeOrSubtree",
     "installEmotionMutationObserver"}

EmptyCall(c) == c.fn \in SubstEntryPoints /\ c.map = EmptyMap

CallHist ==
    /\ lastOp' = [op |-> "call", tags |-> {}]
    /\ UNCHANGED replaced
    /\ UNCHANGED <<offSince, firstOrigText, firstOrigAttr, resub, expText, expAttr,
                   rt, snapText, snapAttr, extWritten, awaiting, inserted>>
    /\ UNCHANGED <<reader, style, sideVars>>

\* a pass made by a direct call: its writes reach the observer, if one is
\* installed, at the end of the task
CallCommit(s) ==
    /\ Commit(s)
    /\ timers' = debounce(timers, observer, s.rec)
    /\ records' = <<>>

\* replaceTextWithMapSync(t, d)                          content.js 213-279
FnReplace(t, d) ==
    /\ fnCall' = [fn |-> "replaceTextWithMapSync", text |-> t, map |-> d,
                  node |-> "", after |-> ""]
    /\ fnOut' = replaceTextWithMapSync(t, d, AURA_RE)
    /\ AURA_RE' = IF t = "" \/ Len(d) = 0 THEN AURA_RE ELSE CompiledFor(AURA_RE, d)
    /\ CallHist
    /\ UNCHANGED domVars
    /\ UNCHANGED <<originalTextMap, originalAttrMap, AURA_MAP, observer,
                   shadowWatcher, records, timers, deferred, faulty>>
    /\ UNCHANGED envVars

\* runEmotionFilterOnNode(root, d)                       content.js 402-435
FnRunFilter(root, d) ==
    LET s == runEmotionFilterOnNode(CurrentStore, root, d, AURA_RE, observer.on)
    IN  /\ fnCall' = [fn |-> "runEmotionFilterOnNode", text |-> "", map |-> d,
                      node |-> root, after |-> ""]
        /\ fnOut' = ""
        /\ CallCommit(s)
        /\ AURA_RE' = IF Len(d) = 0 \/ WalkedLeaves(parent, text, root) = {}
                      THEN AURA_RE ELSE CompiledFor(AURA_RE, d)
        /\ CallHist
        /\ UNCHANGED <<parent, AURA_MAP, observer, shadowWatcher, deferred, faulty>>
        /\ UNCHANGED envVars

\* applyMapToNodeOrSubtree(node, d)                      content.js 295-324
FnApplyMap(node, d) ==
    LET s == applyMapToNodeOrSubtree(CurrentStore, node, d, AURA_RE, observer.on)
    IN  /\ fnCall' = [fn |-> "applyMapToNodeOrSubtree", text |-> "", map |-> d,
                      node |-> node, after |-> ""]
        /\ fnOut' = ""
        /\ CallCommit(s)
        /\ AURA_RE' = IF Len(d) = 0 THEN AURA_RE ELSE CompiledFor(AURA_RE, d)
        /\ CallHist
        /\ UNCHANGED <<parent, AURA_MAP, observer, shadowWatcher, deferred, faulty>>
        /\ UNCHANGED envVars

\* installEmotionMutationObserver(d)                     content.js 326-383
FnInstall(d) ==
    /\ fnCall' = [fn |-> "installEmotionMutationObserver", text |-> "", map |-> d,
                  node |-> "", after |-> ""]
    /\ fnOut' = ""
    /\ observer' = installEmotionMutationObserver(observer, d)
    /\ shadowWatcher' = observer'.on
    /\ CallHist
    /\ UNCHANGED domVars
    /\ UNCHANGED <<originalTextMap, originalAttrMap, AURA_MAP, AURA_RE, records,
                   timers, deferred, faulty>>
    /\ UNCHANGED envVars

\* restoreReplacements()                                 content.js 73-118
FnRestore ==
    LET s == restoreReplacements(CurrentStore)
    IN  /\ fnCall' = [fn |-> "restoreReplacements", text |-> "", map |-> EmptyMap,
                      node |-> "",
                      after |-> IF lastOp.op = "call" /\ EmptyCall(fnCall)
                                THEN "emptyCall" ELSE ""]
        /\ fnOut' = ""
        /\ CallCommit(s)
        /\ CallHist
        /\ UNCHANGED <<parent, AURA_MAP, AURA_RE, observer, shadowWatcher, deferred,
                       faulty>>
        /\ UNCHANGED envVars

InitFnPage ==
    /\ parent = [n \in Nodes \ {"body"} |-> HomeOf[n]]
    /\ text \in [Leaves -> FnPageTexts]
    /\ text["t3"] = "hates this"
    /\ attr = [el \in AttrElements |-> [a \in AttrNames |-> "hates this"]]

InitFnEnv ==
    /\ sync_aware = FALSE
    /\ sync_map = EmptyMap
    /\ changesQ = <<>>
    /\ initDone = TRUE
    /\ pipes = [get |-> 0, load |-> 0, fallback |-> 0]
    /\ extBudget = 0
    /\ evtBudget = 0

InitOfFn ==
    /\ InitFnPage
    /\ InitEngine
    /\ faulty = {}
    /\ InitFnEnv
    /\ InitHist
    /\ InitFn

NextFn ==
    \/ \E t \in FnTexts : \E d \in FnDicts : FnReplace(t, d)
    \/ \E root \in Elements : \E d \in FnDicts : FnRunFilter(root, d)
    \/ \E node \in Nodes : \E d \in FnDicts : FnApplyMap(node, d)
    \/ FnInstall(EmptyMap)
    \/ FnRestore

SpecFn == InitOfFn /\ [][NextFn]_vars

\* the content script in a page where DOM writes to some nodes throw
InitFault ==
    /\ InitTree
    /\ InitEngine
    /\ faulty \in {{"t1"}, {"div"}}
    /\ InitEnv
    /\ InitHist
    /\ InitFn

SpecFault == InitFault /\ [][Next]_vars

\* the content script on a page whose stored settings enable the filter and
\* are left alone: page code mutates the tree while the watcher re-applies,
\* the master switch turns the extension off and a run-filter message turns
\* the filter back on
InitWatch ==
    /\ InitTree
    /\ InitEngine
    /\ faulty = {}
    /\ sync_aware = TRUE
    /\ sync_map = DictHate
    /\ changesQ = <<>>
    /\ initDone = FALSE
    /\ pipes = [get |-> 0, load |-> 0, fallback |-> 0]
    /\ extBudget = MaxTouches
    /\ evtBudget = MaxEvents
    /\ InitHist
    /\ InitFn

NextWatch ==
    \/ \E l \in Leaves : \E v \in ExtTexts : ExtSetText(l, v)
    \/ \E el \in AttrElements : \E a \in AttrNames : \E v \in ExtAttrs : ExtSetAttr(el, a, v)
    \/ \E n \in Movable : ExtDetach(n)
    \/ \E n \in Movable : ExtAttach(n)
    \/ InitialRun
    \/ DeliverMutations
    \/ \E t \in timers : DebouncedApply(t)
    \/ MasterDisable
    \/ MessageRunFilter
    \/ PipelineStored

SpecWatch == InitWatch /\ [][NextWatch]_vars

\* ------------------------------------------------------------------------
\* The text engine on its own: a dictionary is loaded into AURA_MAP and
\* AURA_RE (content.js 621-624) and replaceTextWithMapSync is applied to
\* texts under it, as every pass does for each leaf and attribute value.
\* ------------------------------------------------------------------------
DictCase == << <<"hate", "disLIKE">> >>
DictStem == << <<"cook", "bake">>, <<"glad", "happy">>, <<"fair", "true">>,
               <<"lad", "baby">> >>
DictAppend == << <<"want", "like">>, <<"rain", "snow">>, <<"fact", "box">>,
                 <<"hope", "wish">>, <<"quiz", "buzz">>, <<"seat", "couch">>,
                 <<"song", "glass">> >>
DictNest == << <<"cook", "bake">>, <<"cooker", "stove">>, <<"hat", "cap">>,
               <<"hats", "gloves">> >>
OversizedKey == "hatehatehatehate"
DictOversized == << <<"hate", "dislike">>, <<OversizedKey, "x">>, <<"bad", "poor">> >>
WordDicts == {DictHate, DictBad, DictCase, DictStem, DictAppend, DictNest, DictOversized}

WordTexts ==
    {"hate", "Hate", "HATE", "hAte", "HATES it", "Hated",
     "cooking", "gladly", "fairly", "lads", "Cooking now", "cooked",
     "hateful hate.", "whatever", "a hate-crime", "hate's hates's", "so: hate! (Hated)",
     "hate2 hate_ 2hate", "ahate hatex", "  hate  ", "bad hate,bad",
     "I HATE this", "The quick brown fox", "badly", "hatest HATING",
     "wanted", "rained", "RAINED", "Wanted", "wanter", "rainest", "wants",
     "wantes", "facts", "factes", "hopes", "quizes", "seats", "songs",
     "rains", "raines", "hateed", "hate's", "Hate's", "HATE'S",
     "cooker", "my cooker now", "Cooker.", "hats", "a hats.", "cookers",
     "cooks", "hat"}

\* AURA_MAP = {}; AURA_MAP[k.toLowerCase()] = String(map[k]);
\* AURA_RE = buildRegexFromMap(AURA_MAP)                  content.js 621-624
WordLoad(d) ==
    /\ AURA_MAP' = NormalizeMap(d)
    /\ AURA_RE' = buildRegexFromMap(AURA_MAP')
    /\ CallHist
    /\ UNCHANGED domVars
    /\ UNCHANGED <<originalTextMap, originalAttrMap, observer, shadowWatcher,
                   records, timers, deferred, faulty>>
    /\ UNCHANGED envVars
    /\ fnCall' = [fn |-> "loadMap", text |-> "", map |-> AURA_MAP',
                  node |-> "", after |-> ""]
    /\ fnOut' = ""
    /\ UNCHANGED reader

\* replaceTextWithMapSync(t, AURA_MAP)                    content.js 213-279
WordReplace(t) ==
    /\ fnCall' = [fn |-> "replaceTextWithMapSync", text |-> t, map |-> AURA_MAP,
                  node |-> "", after |-> ""]
    /\ fnOut' = replaceTextWithMapSync(t, AURA_MAP, AURA_RE)
    /\ CallHist
    /\ UNCHANGED domVars
    /\ UNCHANGED engineVars
    /\ UNCHANGED envVars

InitWord ==
    /\ InitTree
    /\ InitEngine
    /\ faulty = {}
    /\ InitFnEnv
    /\ InitHist
    /\ InitFn

NextWord ==
    \/ \E d \in WordDicts : WordLoad(d)
    \/ \E t \in WordTexts : WordReplace(t)

SpecWord == InitWord /\ [][NextWord]_vars

\* ------------------------------------------------------------------------
\* The reading aid: Indexer, Chunk Locator and Range Highlighter.  Their
\* code is not part of src/; they are modelled from the component design
\* (spec.md 4.1 - 4.3).  Offsets are 0-based, ranges are [start, end).
\* ------------------------------------------------------------------------
IsSpace(c) == c \in {" ", "\t", "\n"}

\* whitespace runs collapsed to one space, both ends trimmed (4.1)
normalize(cs) ==
    LET keep[i \in 0..Len(cs)] ==
            IF i = 0 THEN <<>>
            ELSE IF ~IsSpace(cs[i]) THEN Append(keep[i - 1], cs[i])
            ELSE IF keep[i - 1] = <<>> \/ keep[i - 1][Len(keep[i - 1])] = " "
                 THEN keep[i - 1]
            ELSE Append(keep[i - 1], " ")
        r == keep[Len(cs)]
    IN  IF r # <<>> /\ r[Len(r)] = " " THEN SubSeq(r, 1, Len(r) - 1) ELSE r

\* the leaves the Indexer visits: attached, outside excluded containers and
\* editable fields, bearing text
Indexed(par, txt, n) ==
    /\ n \in Leaves
    /\ IsConnectedIn(par, n)
    /\ ~InExcluded(par, n)
    /\ normalize(Chars(txt[n])) # <<>>

\* an index whose buffer joins the fragments with a space that no entry of
\* the node map accounts for
RECURSIVE IndexFrom_joined(_, _, _, _)
IndexFrom_joined(order, par, txt, acc) ==
    IF order = <<>> THEN acc
    ELSE IF ~Indexed(par, txt, Head(order))
         THEN IndexFrom_joined(Tail(order), par, txt, acc)
    ELSE LET f == Str(normalize(Chars(txt[Head(order)])))
             sep == IF acc.buffer = "" THEN "" ELSE " "
             at == Len(acc.buffer) + Len(sep)
         IN  IndexFrom_joined(Tail(order), par, txt,
                [buffer |-> acc.buffer \o sep \o f,
                 nodeMap |-> Append(acc.nodeMap,
                                [start |-> at, end |-> at + Len(f),
                                 leaf |-> Head(order), normalizedText |-> f])])

\* the depth-first walk: each fragment is appended to the buffer and its
\* [start, end) and source leaf are recorded (4.1)
RECURSIVE IndexFrom(_, _, _, _)
IndexFrom(order, par, txt, acc) ==
    IF order = <<>> THEN acc
    ELSE IF ~Indexed(par, txt, Head(order))
         THEN IndexFrom(Tail(order), par, txt, acc)
    ELSE LET f == Str(normalize(Chars(txt[Head(order)])))
         IN  IndexFrom(Tail(order), par, txt,
                [buffer |-> acc.buffer \o f,
                 nodeMap |-> Append(acc.nodeMap,
                                [start |-> Len(acc.buffer),
                                 end |-> Len(acc.buffer) + Len(f),
                                 leaf |-> Head(order), normalizedText |-> f])])

buildIndex(par, txt) ==
    IndexFrom(DocOrder, par, txt, [buffer |-> "", nodeMap |-> <<>>])

\* the ladder's sizes, scaled to the buffers of the model (spec: window
\* 8,000; head 60; prefixes from 80 down to 12 in steps of 12)
LocateWindow == 3
HeadLen == 3
PrefixMax == 4
PrefixMin == 2
PrefixStep == 1

Min2(a, b) == IF a < b THEN a ELSE b
Max2(a, b) == IF a > b THEN a ELSE b

\* the first position q in lo..hi at which pat lies in buf within [lo, hi)
indexOf(buf, pat, lo, hi) ==
    LET hits == {q \in lo..(hi - Len(pat)) : SubSeq(buf, q + 1, q + Len(pat)) = pat}
    IN  IF pat = "" \/ hits = {} THEN NOT_FOUND
        ELSE CHOOSE q \in hits : \A r \in hits : q <= r

\* the shrinking prefix search: lengths PrefixMax, PrefixMax - PrefixStep, ...
\* down to PrefixMin, the first one found anywhere wins
RECURSIVE prefixSearch(_, _, _)
prefixSearch(buf, c, n) ==
    IF n < PrefixMin THEN NOT_FOUND
    ELSE LET q == indexOf(buf, SubSeq(c, 1, Min2(n, Len(c))), 0, Len(buf))
         IN  IF Len(c) >= PrefixMin /\ q # NOT_FOUND THEN q
             ELSE prefixSearch(buf, c, n - PrefixStep)

\* locate(chunkText, approxGlobalOffset): the fallback ladder (4.2)
locate(buf, chunkText, approx) ==
    LET c == Str(normalize(Chars(chunkText)))
        lo == Max2(0, approx - LocateWindow)
        hi == Min2(Len(buf), approx + LocateWindow)
        windowed == indexOf(buf, c, lo, hi)
        full == indexOf(buf, c, 0, Len(buf))
        head == indexOf(buf, SubSeq(c, 1, Min2(HeadLen, Len(c))), 0, Len(buf))
    IN  IF windowed # NOT_FOUND THEN windowed
        ELSE IF full # NOT_FOUND THEN full
        ELSE IF head # NOT_FOUND THEN head
        ELSE prefixSearch(buf, c, PrefixMax)

\* clearHighlight(): the wrapper is removed, its content back in place (4.3)
clearHighlight(r) == [r EXCEPT !.wrappers = <<>>, !.hlStart = NoHighlight]

\* highlightRange that neither skips a repeated request nor clears first
highlightRange_stack(r, globalStart, globalEnd) ==
    LET s == Min2(Max2(globalStart, 0), Len(r.buffer))
        e == Min2(Max2(globalEnd, 0), Len(r.buffer))
    IN  IF s >= e THEN r
        ELSE [r EXCEPT
                !.wrappers = Append(r.wrappers,
                                [start |-> s, end |-> e,
                                 content |-> SubSeq(r.buffer, s + 1, e)]),
                !.hlStart = s]

\* highlightRange(globalStart, globalEnd) (4.3): clamp; nothing to do when
\* the start is the highlighted one; else clear, then wrap the covered spans
\* in one wrapper
highlightRange(r, globalStart, globalEnd) ==
    LET s == Min2(Max2(globalStart, 0), Len(r.buffer))
        e == Min2(Max2(globalEnd, 0), Len(r.buffer))
        c == clearHighlight(r)
        covered == {i \in 1..Len(r.nodeMap) :
                        r.nodeMap[i].start < e /\ s < r.nodeMap[i].end}
    IN  IF r.hlStart # NoHighlight /\ s = r.hlStart THEN r
        ELSE IF s >= e \/ covered = {} THEN c
        ELSE [c EXCEPT
                !.wrappers = Append(c.wrappers,
                                [start |-> s, end |-> e,
                                 content |-> SubSeq(r.buffer, s + 1, e)]),
                !.hlStart = s]

\* highlightWord(globalIndex) (4.3): the non-whitespace run around the index
highlightWord(r, globalIndex) ==
    LET buf == r.buffer
        solid(q) == q >= 0 /\ q < Len(buf) /\ ~IsSpace(SubSeq(buf, q + 1, q + 1))
        left == CHOOSE a \in 0..globalIndex :
                    /\ \A q \in a..globalIndex : solid(q)
                    /\ ~solid(a - 1)
        right == CHOOSE b \in globalIndex..(Len(buf) - 1) :
                    /\ \A q \in globalIndex..b : solid(q)
                    /\ ~solid(b + 1)
    IN  IF ~solid(globalIndex) THEN r
        ELSE highlightRange(r, left, right + 1)

\* inputs of the reading aid
ReaderTexts == {"ab ab", " a  b\t", "  "}
ChunkTexts == {"ab", "b a", "a  b", "abx", "zz"}
MaxOffset == 5          \* largest offset a call of the reading aid is given

\* the reader after a call: `again` tells that the call before it was the
\* same call with the same arguments; `out` is what the call returned
Called(r, fn, a, b, chunk, out) ==
    [r EXCEPT !.call = [fn |-> fn, a |-> a, b |-> b, chunk |-> chunk,
                        again |-> /\ reader.call.fn = fn /\ reader.call.a = a
                                  /\ reader.call.b = b /\ reader.call.chunk = chunk],
              !.out = out]

ReaderFrame ==
    /\ lastOp' = [op |-> "call", tags |-> {}]
    /\ UNCHANGED replaced
    /\ UNCHANGED <<offSince, firstOrigText, firstOrigAttr, resub, expText, expAttr,
                   rt, snapText, snapAttr, extWritten, awaiting, inserted>>
    /\ UNCHANGED <<fnCall, fnOut, style, sideVars>>
    /\ UNCHANGED domVars
    /\ UNCHANGED engineVars
    /\ UNCHANGED envVars

RdBuildIndex ==
    /\ LET ix == buildIndex(parent, text)
       IN  reader' = Called([reader EXCEPT !.buffer = ix.buffer, !.nodeMap = ix.nodeMap],
                            "buildIndex", 0, 0, "", NOT_FOUND)
    /\ ReaderFrame

RdLocate(chunk, approx) ==
    /\ approx <= Len(reader.buffer)
    /\ reader' = Called(reader, "locate", approx, 0, chunk,
                        locate(reader.buffer, chunk, approx))
    /\ ReaderFrame

RdHighlightRange(gs, ge) ==
    /\ reader' = Called(highlightRange(reader, gs, ge), "highlightRange", gs, ge, "",
                        NOT_FOUND)
    /\ ReaderFrame

RdHighlightWord(i) ==
    /\ reader' = Called(highlightWord(reader, i), "highlightWord", i, 0, "", NOT_FOUND)
    /\ ReaderFrame

RdClearHighlight ==
    /\ reader' = Called(clearHighlight(reader), "clearHighlight", 0, 0, "", NOT_FOUND)
    /\ ReaderFrame

InitReader ==
    /\ parent = [n \in Nodes \ {"body"} |-> HomeOf[n]]
    /\ text \in [Leaves -> ReaderTexts]
    /\ text["t3"] = "ab ab"
    /\ attr = InitAttr
    /\ InitEngine
    /\ faulty = {}
    /\ InitFnEnv
    /\ InitHist
    /\ InitFn

NextReader ==
    \/ RdBuildIndex
    \/ \E c \in ChunkTexts : \E a \in 0..MaxOffset : RdLocate(c, a)
    \/ \E gs \in 0..MaxOffset : \E ge \in gs..MaxOffset : RdHighlightRange(gs, ge)
    \/ \E i \in 0..MaxOffset : RdHighlightWord(i)
    \/ RdClearHighlight

SpecReader == InitReader /\ [][NextReader]_vars

\* ------------------------------------------------------------------------
\* Profile style injection: init, the storage listener, the shadow-attach
\* observer and the injection timers                content.js 831-867, 1066-1136
\* ------------------------------------------------------------------------
\* what a task of the style component leaves alone
StyleFrame(op, off) ==
    /\ UNCHANGED domVars
    /\ UNCHANGED engineVars
    /\ UNCHANGED <<sync_aware, sync_map, changesQ, initDone, pipes>>
    /\ IdleHist(op, off)
    /\ UNCHANGED <<fnCall, fnOut, reader, replaced, sideVars>>

\* the callback of init's storage.get                    content.js 1102-1111
StyleInitGet ==
    /\ style.gets # <<>>
    /\ Head(style.gets) = "init"
    /\ LET s == [style EXCEPT !.gets = Tail(@), !.isEnabled = style.aura_enabled]
       IN  style' = runMicrotasks(
                IF s.aura_profile # NoProfile /\ s.isEnabled
                THEN applyProfileToDocument(s, s.aura_profile)
                ELSE IF s.aura_profile # NoProfile
                     THEN [s EXCEPT !.currentProfile = s.aura_profile]
                     ELSE s)
    /\ StyleFrame("styleInitGet", offSince)
    /\ UNCHANGED <<extBudget, evtBudget>>

\* the callback of the listener's storage.get            content.js 1128-1130
StyleProfileGet ==
    /\ style.gets # <<>>
    /\ Head(style.gets) = "aura_profile"
    /\ LET s == [style EXCEPT !.gets = Tail(@)]
       IN  style' = runMicrotasks(applyProfileToDocument(s, s.aura_profile))
    /\ StyleFrame("styleProfileGet", offSince)
    /\ UNCHANGED <<extBudget, evtBudget>>

\* the storage.onChanged listener for a change of aura_profile alone, of
\* aura_enabled to true, or of both keys at once; enabled is "keep" when the
\* change does not carry aura_enabled                     content.js 1114-1134
StyleStorageChanged(profile, enabled) ==
    /\ evtBudget > 0
    /\ records = <<>>
    /\ profile # NoProfile \/ enabled = "on"
    /\ profile # style.aura_profile
    /\ enabled = "on" => ~style.aura_enabled
    /\ enabled = "off" => style.aura_enabled
    /\ evtBudget' = evtBudget - 1
    /\ LET s0 == [style EXCEPT
                    !.aura_profile = IF profile = NoProfile THEN @ ELSE profile,
                    !.aura_enabled = IF enabled = "keep" THEN @ ELSE enabled = "on"]
           s1 == applyProfileToDocument(s0, profile)
           s2 == IF enabled = "keep" THEN s1 ELSE enabledChanged(s1, enabled = "on")
       IN  style' = runMicrotasks(s2)
    /\ IF enabled = "off"
       THEN /\ RestoreAndUninstall("masterDisable")
            /\ UNCHANGED <<parent, faulty, AURA_MAP, AURA_RE, deferred>>
            /\ UNCHANGED <<sync_aware, sync_map, changesQ, initDone, pipes>>
            /\ UNCHANGED <<fnCall, fnOut, reader, replaced, sideVars>>
       ELSE StyleFrame("styleStorageChanged", offSince /\ enabled # "on")
    /\ UNCHANGED extBudget

\* the page adds nodes below body, a shadow host among them or not, and the
\* shadowAttachObserver callback runs                     content.js 1066-1080
StyleNodesAdded(host) ==
    /\ extBudget > 0
    /\ extBudget' = extBudget - 1
    /\ LET s == [style EXCEPT !.shadowHost = @ \/ host]
       IN  style' = IF ~s.isEnabled \/ s.currentProfile = NoProfile THEN s
                    ELSE [s EXCEPT !.inject100 = @ + 1]
    /\ StyleFrame("styleNodesAdded", offSince)
    /\ UNCHANGED evtBudget

\* the 40 ms timer armed by the injection microtask      content.js 853-859
StyleTimer40 ==
    /\ style.inject40 # <<>>
    /\ style' = injectIntoShadowRoots([style EXCEPT !.inject40 = Tail(@)],
                                      Head(style.inject40))
    /\ StyleFrame("styleTimer40", offSince)
    /\ UNCHANGED <<extBudget, evtBudget>>

\* the 100 ms timer armed by the shadowAttachObserver     content.js 1077
StyleTimer100 ==
    /\ style.inject100 > 0
    /\ style' = injectIntoShadowRoots([style EXCEPT !.inject100 = @ - 1],
                                      style.currentProfile)
    /\ StyleFrame("styleTimer100", offSince)
    /\ UNCHANGED <<extBudget, evtBudget>>

\* init() has run: its storage.get is pending and the observer is installed
InitStyle ==
    /\ InitTree
    /\ InitEngine
    /\ faulty = {}
    /\ sync_aware = FALSE
    /\ sync_map = EmptyMap
    /\ changesQ = <<>>
    /\ initDone = TRUE
    /\ pipes = [get |-> 0, load |-> 0, fallback |-> 0]
    /\ extBudget = MaxExternal
    /\ evtBudget = MaxEvents
    /\ InitHist
    /\ fnCall = NoCall
    /\ fnOut = ""
    /\ reader = NoReader
    /\ InitSide
    /\ style \in {[NoStyle EXCEPT !.gets = <<"init">>, !.aura_profile = p,
                                  !.aura_enabled = e, !.shadowHost = h] :
                    p \in StyleProfiles \cup {NoProfile}, e \in BOOLEAN, h \in BOOLEAN}

NextStyle ==
    \/ StyleInitGet
    \/ StyleProfileGet
    \/ \E p \in StyleProfiles \cup {NoProfile} : \E e \in {"keep", "on", "off"} :
           StyleStorageChanged(p, e)
    \/ MasterDisable
    \/ \E h \in BOOLEAN : StyleNodesAdded(h)
    \/ StyleTimer40
    \/ StyleTimer100

SpecStyle == InitStyle /\ [][NextStyle]_vars

\* ------------------------------------------------------------------------
\* Background service worker: handlers                      background.js
\* Each action is one run of a handler from one await to the next; a chrome
\* API call takes effect when it is made and its promise settles in a later
\* step, in any order with the other pending promises.
\* ------------------------------------------------------------------------
MaxOps == 3

BgFrame ==
    /\ UNCHANGED <<domVars, engineVars, envVars, histVars>>
    /\ UNCHANGED <<fnCall, fnOut, reader, style, replaced, ttsVars>>

Launch(type, pc, shouldEnable, val, resp) ==
    tasks' = Append(tasks, [NoTask EXCEPT !.type = type, !.pc = pc,
                                          !.shouldEnable = shouldEnable,
                                          !.val = val, !.resp = resp])

\* the for loop of applyDarkModeToAllTabs from the tabs in `rest` on, up to
\* its next await or its end                             background.js 81-85
ApplyLoop(i, rest) ==
    LET r == SkipIneligible(rest)
    IN  IF r = <<>>
        THEN /\ tasks' = [tasks EXCEPT
                    ![i].pc = "done", ![i].rest = <<>>,
                    ![i].resp = IF tasks[i].type = "AURA_DARKMODE_TOGGLE"
                                THEN Stored(darkModeEnabled) ELSE @]
             /\ UNCHANGED tabCss
        ELSE /\ tabCss' = toggleDarkModeOnTab(tabCss, Head(r), tasks[i].shouldEnable)
             /\ tasks' = [tasks EXCEPT ![i].pc = "awaitTab", ![i].rest = Tail(r)]

\* onMessage AURA_DARKMODE_TOGGLE up to await storage.local.set
\*                                                     background.js 276-278
DarkToggleMessage ==
    /\ opBudget > 0
    /\ opBudget' = opBudget - 1
    /\ darkModeEnabled' = ~darkModeEnabled
    /\ storage' = [storage EXCEPT !.darkModeEnabled = Stored(darkModeEnabled')]
    /\ Launch("AURA_DARKMODE_TOGGLE", "awaitSet", FALSE, "unset", "none")
    /\ UNCHANGED <<adBlockEnabled, isNightTime, ruleset, tabCss, ask>>
    /\ BgFrame

\* ... from there into applyDarkModeToAllTabs up to await tabs.query
\*                                                     background.js 279, 78-80
DarkSetDone(i) ==
    /\ tasks[i].type = "AURA_DARKMODE_TOGGLE"
    /\ tasks[i].pc = "awaitSet"
    /\ tasks' = [tasks EXCEPT ![i].pc = "awaitQuery",
                              ![i].shouldEnable = darkModeEnabled /\ isNightTime]
    /\ UNCHANGED <<adBlockEnabled, darkModeEnabled, isNightTime, storage, ruleset,
                   tabCss, ask, opBudget>>
    /\ BgFrame

\* onCommand toggle_night_mode: nothing is awaited before
\* applyDarkModeToAllTabs reaches its tabs.query         background.js 361-366
NightModeCommand ==
    /\ opBudget > 0
    /\ opBudget' = opBudget - 1
    /\ darkModeEnabled' = ~darkModeEnabled
    /\ storage' = [storage EXCEPT !.darkModeEnabled = Stored(darkModeEnabled')]
    /\ Launch("toggle_night_mode", "awaitQuery", darkModeEnabled' /\ isNightTime,
              "unset", "none")
    /\ UNCHANGED <<adBlockEnabled, isNightTime, ruleset, tabCss, ask>>
    /\ BgFrame

\* updateNightStatus at a clock tick where the hour is (or is not) a night
\* hour                                                  background.js 16-25
UpdateNightStatus(night) ==
    /\ opBudget > 0
    /\ opBudget' = opBudget - 1
    /\ isNightTime' = night
    /\ IF isNightTime # night
       THEN Launch("updateNightStatus", "awaitQuery", darkModeEnabled /\ night,
                   "unset", "none")
       ELSE UNCHANGED tasks
    /\ UNCHANGED <<adBlockEnabled, darkModeEnabled, storage, ruleset, tabCss, ask>>
    /\ BgFrame

\* tabs.query has answered: the loop starts               background.js 80-85
DarkQueryDone(i) ==
    /\ tasks[i].type \in {"AURA_DARKMODE_TOGGLE", "toggle_night_mode", "updateNightStatus"}
    /\ tasks[i].pc = "awaitQuery"
    /\ ApplyLoop(i, Tabs)
    /\ UNCHANGED <<adBlockEnabled, darkModeEnabled, isNightTime, storage, ruleset,
                   ask, opBudget>>
    /\ BgFrame

\* toggleDarkModeOnTab has settled: the loop goes on       background.js 83-85
DarkTabDone(i) ==
    /\ tasks[i].pc = "awaitTab"
    /\ ApplyLoop(i, tasks[i].rest)
    /\ UNCHANGED <<adBlockEnabled, darkModeEnabled, isNightTime, storage, ruleset,
                   ask, opBudget>>
    /\ BgFrame

\* ------------------------------------------------------------------------
\* Properties
\* ------------------------------------------------------------------------
LastWasRestore == lastOp.op \in RestoreOps

\* C1: one full substitution pass on a tree of which the engine holds no
\* earlier substitution, followed by restoreReplacements with no external
\* change and no other engine write in between, leaves every text leaf and
\* every attribute at the value it had before the pass.
C1_RoundTrip == rt = "restored" => text = snapText /\ attr = snapAttr

C1_Witness ==
    /\ rt = "restored"
    /\ LastWasRestore
    /\ "wrote" \in lastOp.tags
    /\ "attachedEntry" \in lastOp.tags

\* C2: whatever passes ran (initial pass, pipeline passes, deferred and
\* debounced applies), right after a disable handler every still-attached
\* leaf and attribute the engine modified holds the value it had before the
\* engine's first modification of it.
C2_OffRestoresFirstOriginal ==
    LastWasRestore =>
        /\ \A l \in Leaves : expText[l] # NoEntry => text[l] = expText[l]
        /\ \A el \in AttrElements : \A a \in AttrNames :
              expAttr[el][a] # NoEntry => attr[el][a] = expAttr[el][a]

C2_Witness ==
    /\ LastWasRestore
    /\ "resub" \in lastOp.tags
    /\ "wrote" \in lastOp.tags
    /\ \E l \in Leaves : expText[l] # NoEntry

\* C3: after a disable handler has run and before substitution is turned
\* on again, neither the 60 ms deferred apply nor a debounced re-application
\* writes a substitution to the tree.
C3_NoTimerWriteAfterOff ==
    ~(/\ lastOp.op \in {"deferredApply", "debouncedApply"}
      /\ "afterOff" \in lastOp.tags)

\* C4: a recorded original of a text leaf or of an (element, attribute) pair
\* is never replaced by another value; it only disappears when restore
\* clears the ledger.
C4_FirstWriteWins ==
    [][/\ \A l \in Leaves :
            originalTextMap[l] # NoEntry /\ originalTextMap'[l] # NoEntry
                => originalTextMap'[l] = originalTextMap[l]
       /\ \A el \in AttrElements : \A a \in AttrNames :
            originalAttrMap[el][a] # NoEntry /\ originalAttrMap'[el][a] # NoEntry
                => originalAttrMap'[el][a] = originalAttrMap[el][a]]_vars

C4_Witness ==
    /\ "wrote" \in lastOp.tags
    /\ \E l \in resub :
          /\ originalTextMap[l] # NoEntry
          /\ originalTextMap[l] = firstOrigText[l]
          /\ originalTextMap[l] # text[l]

\* C5: a restore does not overwrite a substituted leaf that external code
\* rewrote after the engine's last write to it.
C5_RestoreKeepsExternalContent ==
    ~(LastWasRestore /\ "overwroteExternal" \in lastOp.tags)

\* C6: a step that runs restoreReplacements writes the recorded original to
\* every entry whose node is attached, leaves detached nodes as they are,
\* and runs to its end: the ledger is cleared and the observer uninstalled.
C6_RestoreAttachedOnly ==
    [][lastOp'.op \in RestoreOps =>
        /\ \A l \in Leaves : originalTextMap[l] # NoEntry =>
              text'[l] = IF isConnected(l) THEN originalTextMap[l] ELSE text[l]
        /\ \A el \in AttrElements : \A a \in AttrNames :
              originalAttrMap[el][a] # NoEntry =>
                 attr'[el][a] = IF isConnected(el) THEN originalAttrMap[el][a]
                                ELSE attr[el][a]
        /\ originalTextMap' = EmptyLedgerText
        /\ originalAttrMap' = EmptyLedgerAttr
        /\ ~observer'.on]_vars

C6_Witness ==
    /\ LastWasRestore
    /\ "detachedEntry" \in lastOp.tags
    /\ "attachedEntry" \in lastOp.tags
    /\ "wrote" \in lastOp.tags

\* C7: right after restoreReplacements both ledger maps are empty, also when
\* a write-back threw.
C7_LedgerClearedAfterRestore == LastWasRestore => LedgerEmpty

C7_Witness ==
    /\ LastWasRestore
    /\ "failedWrite" \in lastOp.tags
    /\ LedgerEmpty

\* C8: restoreReplacements with an empty ledger, or run right after another
\* restoreReplacements, changes no text leaf and no attribute.
C8_RestoreIdempotent ==
    [][lastOp'.op \in RestoreOps /\ (LedgerEmpty \/ LastWasRestore)
          => text' = text /\ attr' = attr]_vars

C8_Witness ==
    /\ LastWasRestore
    /\ "afterRestore" \in lastOp.tags
    /\ "ledgerEmpty" \in lastOp.tags
    /\ text # InitText

\* C9: called with an empty dictionary, replaceTextWithMapSync returns its
\* text, and runEmotionFilterOnNode, applyMapToNodeOrSubtree and
\* installEmotionMutationObserver change no leaf, no attribute, no ledger
\* entry and install no observer; restoreReplacements right after such a
\* call, the ledger being empty, changes nothing either.
C9_EmptyDictionaryChangesNothing ==
    [][lastOp'.op = "call" =>
        /\ EmptyCall(fnCall') =>
              /\ text' = text /\ attr' = attr
              /\ originalTextMap' = originalTextMap
              /\ originalAttrMap' = originalAttrMap
              /\ observer' = observer
              /\ fnCall'.fn = "replaceTextWithMapSync" => fnOut' = fnCall'.text
        /\ fnCall'.fn = "restoreReplacements" /\ fnCall'.after = "emptyCall"
              /\ LedgerEmpty
              => text' = text /\ attr' = attr]_vars

C9_Witness ==
    /\ lastOp.op = "call"
    /\ fnCall.fn = "restoreReplacements"
    /\ fnCall.after = "emptyCall"
    /\ LedgerEmpty
    /\ ~observer.on
    /\ text["t1"] = "I HATE this"
    /\ text["t2"] = "The quick brown fox"

\* C10: with dictionary {"hate": "dislike"}, replaceTextWithMapSync maps
\* "I HATE this" to "I DISLIKE this", "hated this" to "disliked this",
\* "hating this" to "disliking this" and "hates this" to "dislikes this".
C10_MorphologyExamples ==
    (fnCall.fn = "replaceTextWithMapSync" /\ fnCall.map = DictHate) =>
        /\ fnCall.text = "I HATE this" => fnOut = "I DISLIKE this"
        /\ fnCall.text = "hated this" => fnOut = "disliked this"
        /\ fnCall.text = "hating this" => fnOut = "disliking this"
        /\ fnCall.text = "hates this" => fnOut = "dislikes this"


\* the last step applied replaceTextWithMapSync to a text that is, as a
\* whole, one key of the loaded dictionary in some casing
\* the pattern built from the dictionary compiled, so that there are matches
PatternCompiled(map) == buildRegexFromMap(map) # NoRegex

WholeKeyCall ==
    /\ fnCall.fn = "replaceTextWithMapSync"
    /\ PatternCompiled(fnCall.map)
    /\ fnCall.text # ""
    /\ Lookup(fnCall.map, toLowerCase(Chars(fnCall.text))) \notin {Null, ""}

AllUpper(m) == toUpperCase(m) = m
Capitalized(m) == UpChar(m[1]) = m[1] /\ toLowerCase(Tail(m)) = Tail(m)
FirstUpper(v) == <<UpChar(v[1])>> \o Tail(v)

\* C11 (as amended): a fully upper-case match gives the replacement fully
\* upper-cased, a capitalized match gives the replacement with its first
\* letter capitalized, and any other match gives the replacement exactly as
\* the dictionary holds it, its own casing kept.
C11_CaseOfMatch ==
    WholeKeyCall =>
        LET m == Chars(fnCall.text)
            v == Chars(Lookup(fnCall.map, toLowerCase(m)))
        IN  fnOut = Str(IF AllUpper(m) THEN toUpperCase(v)
                        ELSE IF Capitalized(m) THEN FirstUpper(v)
                        ELSE v)

C11_Witness ==
    /\ WholeKeyCall
    /\ fnCall.text = "hAte"
    /\ fnCall.map = DictCase
    /\ fnOut = "disLIKE"

\* C11 as stated: any match that is neither fully upper-case nor capitalized
\* gives the replacement in lower case, whatever the casing of the value.
C11_OtherMatchLowerCase ==
    WholeKeyCall =>
        LET m == Chars(fnCall.text)
            v == Chars(Lookup(fnCall.map, toLowerCase(m)))
        IN  fnOut = Str(IF AllUpper(m) THEN toUpperCase(v)
                        ELSE IF Capitalized(m) THEN FirstUpper(v)
                        ELSE toLowerCase(v))


\* the rule-table form of each inflected key under DictStem
StemForms ==
    [t \in {"cooking", "gladly", "fairly", "lads"} |->
        CASE t = "cooking" -> "baking"
          [] t = "gladly" -> "happily"
          [] t = "fairly" -> "truly"
          [] t = "lads" -> "babies"]

\* C20: for the stem-changing suffix rules the text produced for a matched
\* key plus suffix is the rule-table form of the replacement: cook+ing under
\* cook -> bake gives baking, glad+ly under glad -> happy gives happily,
\* fair+ly under fair -> true gives truly, lad+s under lad -> baby gives
\* babies.
C20_StemChangingForms ==
    (/\ fnCall.fn = "replaceTextWithMapSync"
     /\ fnCall.map = DictStem
     /\ fnCall.text \in DOMAIN StemForms)
        => fnOut = StemForms[fnCall.text]


\* Words of a text: maximal runs of letters and digits.  A word is a key
\* form when it is a key of the dictionary followed by at most one of the
\* recognized suffixes, in any casing; a key directly followed by 's and a
\* non-word character (or the end) is a possessive key form.
NonWordAt(cs, q) == q > Len(cs) \/ ~IsWordChar(cs[q])
WordStartAt(cs, p) == IsWordChar(cs[p]) /\ (p = 1 \/ ~IsWordChar(cs[p - 1]))
WordEndFrom(cs, p) ==
    CHOOSE q \in (p + 1)..(Len(cs) + 1) :
        NonWordAt(cs, q) /\ \A r \in p..(q - 1) : IsWordChar(cs[r])
PlainSuffixes ==
    {Chars("ing"), Chars("ed"), Chars("es"), Chars("s"), Chars("er"), Chars("est"),
     Chars("ly"), <<>>}
KeyForms(w, map) ==
    {kf \in (1..Len(map)) \X PlainSuffixes :
        toLowerCase(w) = Chars(map[kf[1]][1]) \o kf[2]}
PossessiveAt(cs, p, q, map) ==
    /\ \E i \in 1..Len(map) : toLowerCase(SubSeq(cs, p, q - 1)) = Chars(map[i][1])
    /\ q + 1 <= Len(cs)
    /\ cs[q] = "'"
    /\ LowChar(cs[q + 1]) = "s"
    /\ NonWordAt(cs, q + 2)

\* the text with every key form replaced by what the callback gives for it
\* and every other character copied
OnlyKeyFormsReplaced(cs, map) ==
    LET out[p \in 1..(Len(cs) + 1)] ==
            IF p > Len(cs) THEN <<>>
            ELSE IF ~WordStartAt(cs, p) THEN <<cs[p]>> \o out[p + 1]
            ELSE LET q == WordEndFrom(cs, p)
                     w == SubSeq(cs, p, q - 1)
                 IN  IF PossessiveAt(cs, p, q, map)
                     THEN ReplaceCallback(SubSeq(cs, p, q + 1), <<>>, w,
                                          SubSeq(cs, q, q + 1), map) \o out[q + 2]
                     ELSE IF KeyForms(w, map) = {} THEN w \o out[q]
                     ELSE LET kf == CHOOSE kf \in KeyForms(w, map) :
                                        \A o \in KeyForms(w, map) : Len(o[2]) >= Len(kf[2])
                              b == Len(w) - Len(kf[2])
                          IN  ReplaceCallback(w, <<>>, SubSeq(w, 1, b),
                                              SubSeq(w, b + 1, Len(w)), map) \o out[q]
    IN  out[1]

HasKeyForm(cs, map) ==
    \E p \in 1..Len(cs) :
        WordStartAt(cs, p) /\ KeyForms(SubSeq(cs, p, WordEndFrom(cs, p) - 1), map) # {}

\* C16: the text replaceTextWithMapSync returns is its input with every key
\* form replaced and every other character, the separators before and after
\* each match included, kept in place; a text in which a key occurs only
\* inside longer words that are not key forms is returned unchanged.
C16_OnlyMatchesChange ==
    (fnCall.fn = "replaceTextWithMapSync" /\ Len(fnCall.map) > 0) =>
        /\ fnOut = IF PatternCompiled(fnCall.map)
                   THEN Str(OnlyKeyFormsReplaced(Chars(fnCall.text), fnCall.map))
                   ELSE fnCall.text
        /\ (~HasKeyForm(Chars(fnCall.text), fnCall.map) => fnOut = fnCall.text)

C16_Witness ==
    /\ fnCall.fn = "replaceTextWithMapSync"
    /\ fnCall.map = DictHate
    /\ fnCall.text = "hateful hate."
    /\ fnOut = "hateful dislike."


ExternalOps == {"extSetText", "extSetAttr", "extDetach", "extAttach"}

\* C12: no step of the engine other than a restore (the initial walk, a full
\* pass, a debounced re-application) changes the text of a leaf that lies
\* inside an excluded container or an editable field.
C12_ExcludedLeavesUntouched ==
    [][lastOp'.op \notin (ExternalOps \cup RestoreOps) =>
          \A l \in Leaves : InExcluded(parent, l) => text'[l] = text[l]]_vars


\* nothing of the engine is scheduled or in flight
Quiescent ==
    /\ initDone
    /\ records = <<>>
    /\ {t \in timers : t.live} = {}
    /\ deferred = 0
    /\ PipeCount = 0
    /\ changesQ = <<>>

\* C13: while the watcher is installed, every attached node the observer saw
\* inserted or changed is handled by a substitution pass before the engine
\* runs out of scheduled work, also when its batch was followed by another
\* batch within the debounce window.
C13_TouchedNodesProcessed ==
    (observer.on /\ Quiescent) => awaiting = {}


PassOps == {"initialPass", "pipelinePass", "deferredApply"}

\* the text or attribute value v is handled by a step under map and re:
\* if the dictionary changes it, the step has changed it
Handled(v, w, map, re) == Replaced(v, map, re) # v => w # v

\* the leaves a debounced re-application of the nodes of timer t covers
CoveredBy(t, l) ==
    \E i \in 1..Len(t.nodes) :
        \/ t.nodes[i] = l
        \/ (t.nodes[i] \in Elements /\ l \in WalkedLeaves(parent, text, t.nodes[i]))

\* the step that led to the tree <<txt, at>> is the firing of timer t
FiredIn(t, txt, at) ==
    LET s == scheduledApply(CurrentStore, t.nodes, t.map, AURA_RE, observer.on)
    IN  s.text = txt /\ s.attr = at

\* C15: on a page where writes to some node throw, every full pass and every
\* debounced re-application still substitutes every other leaf and attribute
\* it covers, and every restore still writes back every other attached ledger
\* entry; the step completes.
C15_FailureIsolated ==
    [][/\ lastOp'.op \in PassOps =>
            /\ \A l \in WalkedLeaves(parent, text, "body") \ faulty :
                  Replaced(text[l], AURA_MAP', AURA_RE') # text[l]
                      => text'[l] = Replaced(text[l], AURA_MAP', AURA_RE')
            /\ \A el \in AttrElements \ faulty : \A a \in AttrNames \cap EMOTION_ATTRIBUTES :
                  (isConnected(el) /\ attr[el][a] # NoAttr)
                      => Handled(attr[el][a], attr'[el][a], AURA_MAP', AURA_RE')
       /\ lastOp'.op = "debouncedApply" =>
            \A t \in timers :
                FiredIn(t, text', attr') =>
                    \A l \in Leaves \ faulty :
                        CoveredBy(t, l) => Handled(text[l], text'[l], t.map, AURA_RE)
       /\ lastOp'.op \in RestoreOps =>
            /\ \A l \in Leaves \ faulty :
                  (originalTextMap[l] # NoEntry /\ isConnected(l))
                      => text'[l] = originalTextMap[l]
            /\ \A el \in AttrElements \ faulty : \A a \in AttrNames :
                  (originalAttrMap[el][a] # NoEntry /\ isConnected(el))
                      => attr'[el][a] = originalAttrMap[el][a]]_vars

\* a pass has just run in which the write to t1 threw (its ledger entry was
\* recorded, its text is still the original) and the leaf after it was
\* substituted
C15_Witness ==
    /\ lastOp.op \in PassOps
    /\ "wrote" \in lastOp.tags
    /\ faulty = {"t1"}
    /\ originalTextMap["t1"] # NoEntry
    /\ text["t1"] = InitText["t1"]
    /\ originalTextMap["t2"] # NoEntry
    /\ text["t2"] # originalTextMap["t2"]


\* C17: after buildIndex the node map is sorted by start, each entry's end
\* is the next entry's start (the first starts at 0, the last ends at the
\* buffer's length, no entry is inverted), and the entries' normalizedText
\* concatenated in order is the buffer.
C17_IndexContiguous ==
    reader.call.fn = "buildIndex" =>
        LET nm == reader.nodeMap
            cat[i \in 0..Len(nm)] ==
                IF i = 0 THEN "" ELSE cat[i - 1] \o nm[i].normalizedText
        IN  /\ \A i \in 1..Len(nm) :
                /\ nm[i].start <= nm[i].end
                /\ nm[i].end - nm[i].start = Len(nm[i].normalizedText)
            /\ \A i \in 1..(Len(nm) - 1) :
                /\ nm[i].start <= nm[i + 1].start
                /\ nm[i].end = nm[i + 1].start
            /\ cat[Len(nm)] = reader.buffer

\* an index of two fragments has just been built, of leaves whose raw text
\* needed trimming and collapsing
C17_Witness ==
    /\ reader.call.fn = "buildIndex"
    /\ Len(reader.nodeMap) = 2
    /\ text["t1"] = " a  b\t"
    /\ text["t2"] = "ab ab"
    /\ reader.buffer = "a bab ab"

\* the last call was locate with a chunk that lies verbatim in the buffer at
\* the approximate offset given
VerbatimLocate ==
    /\ reader.call.fn = "locate"
    /\ reader.call.chunk # ""
    /\ reader.call.a + Len(reader.call.chunk) <= Len(reader.buffer)
    /\ SubSeq(reader.buffer, reader.call.a + 1, reader.call.a + Len(reader.call.chunk))
          = reader.call.chunk

C19_OneWrapper ==
    [][/\ Len(reader'.wrappers) <= 1
       /\ (/\ reader'.call.fn = "highlightRange"
           /\ reader'.call.again
           /\ reader'.call.a < Min2(reader'.call.b, Len(reader.buffer)))
              => Len(reader'.wrappers) = 1
       /\ (reader'.call.fn = "clearHighlight" /\ reader.wrappers = <<>>)
              => /\ reader'.wrappers = <<>>
                 /\ reader'.hlStart = reader.hlStart
                 /\ reader'.buffer = reader.buffer
                 /\ reader'.nodeMap = reader.nodeMap
                 /\ text' = text]_vars

\* the same non-empty highlightRange request was made twice in a row and one
\* wrapper is in the tree
C19_Witness ==
    /\ reader.call.fn = "highlightRange"
    /\ reader.call.again
    /\ reader.call.a = 1
    /\ reader.call.b = 4
    /\ Len(reader.wrappers) = 1
    /\ reader.wrappers[1].content = "b a"


\* The appending rules as a table: what follows the replacement v for a
\* matched suffix suf (both lower case).
AppendingSuffixes == {Chars("ed"), Chars("er"), Chars("est"), Chars("s"), Chars("es")}

EndsInSibilant(v) ==
    \/ \E c \in {"s", "x", "z"} : endsWith(v, <<c>>)
    \/ endsWith(v, Chars("ch"))
    \/ endsWith(v, Chars("sh"))

AppendedSuffix(v, suf) ==
    IF suf = Chars("ed") THEN (IF endsWith(v, Chars("e")) THEN Chars("d") ELSE Chars("ed"))
    ELSE IF suf \in {Chars("s"), Chars("es")}
         THEN (IF EndsInSibilant(v) THEN Chars("es") ELSE Chars("s"))
    ELSE suf

\* the key/suffix splits of a text that is, as a whole, a dictionary key
\* followed by one appending suffix (any casing) and not a form of a longer
\* key
KeyPlusAppending(cs, map) ==
    {c \in (1..Len(map)) \X AppendingSuffixes :
        /\ toLowerCase(cs) = Chars(map[c[1]][1]) \o c[2]
        /\ \A o \in KeyForms(cs, map) : Len(o[2]) >= Len(c[2])}

\* C21: for the appending suffix rules the text produced for a matched key
\* plus suffix is, letter for letter, the replacement followed by d for -ed
\* when the replacement ends in e and by ed otherwise; by er / est for -er /
\* -est; and for -s and -es alike by es when the replacement ends in s, x, z,
\* ch or sh and by s otherwise (replacements ending in consonant + y aside).
C21_AppendingSuffixRules ==
    (fnCall.fn = "replaceTextWithMapSync" /\ PatternCompiled(fnCall.map)) =>
        \A c \in KeyPlusAppending(Chars(fnCall.text), fnCall.map) :
            LET v == Chars(fnCall.map[c[1]][2])
            IN  (c[2] \in {Chars("s"), Chars("es")} => ~ConsonantY(v)) =>
                    toLowerCase(Chars(fnOut)) =
                        toLowerCase(v) \o AppendedSuffix(v, c[2])

C21_Witness ==
    /\ fnCall.fn = "replaceTextWithMapSync"
    /\ fnCall.map = DictAppend
    /\ fnCall.text = "factes"
    /\ fnOut = "boxes"
    /\ KeyPlusAppending(Chars(fnCall.text), fnCall.map) # {}


\* the last step applied replaceTextWithMapSync to a text that is, as a
\* whole, a key of the loaded dictionary followed by the possessive suffix
PossessiveCall ==
    /\ fnCall.fn = "replaceTextWithMapSync"
    /\ Len(fnCall.text) > 2
    /\ LET cs == Chars(fnCall.text)
       IN  /\ toLowerCase(slice(cs, Len(cs) - 2)) = Chars("'s")
           /\ Lookup(fnCall.map, toLowerCase(sliceEnd(cs, 2))) \notin {Null, ""}

\* C22: a possessive suffix on a matched word is copied through verbatim:
\* the characters written after the replacement base are exactly those of
\* the matched suffix, in their casing.
C22_PossessiveVerbatim ==
    PossessiveCall =>
        LET cs == Chars(fnCall.text)
            v == Chars(Lookup(fnCall.map, toLowerCase(sliceEnd(cs, 2))))
        IN  Chars(fnOut) = preserveCaseReplace(sliceEnd(cs, 2), v) \o slice(cs, Len(cs) - 2)


\* key `short` occurs inside the longer key `long`
ContainsKey(long, short) ==
    /\ Len(short) < Len(long)
    /\ \E p \in 1..(Len(long) - Len(short) + 1) : SubSeq(long, p, p + Len(short) - 1) = short

\* the keys of the dictionary that contain another of its keys
LongerKeys(map) ==
    {i \in 1..Len(map) : \E j \in 1..Len(map) :
        ContainsKey(Chars(map[i][1]), Chars(map[j][1]))}

\* key-free text before and after the occurrence
BeforeTexts == {"", "my ", "a "}
AfterTexts == {"", " now", "."}

\* the splits of a text into key-free text, a longer key i as a whole word
\* (any casing) and key-free text
LongerKeyOccurrences(txt, map) ==
    {c \in LongerKeys(map) \X BeforeTexts \X AfterTexts :
        /\ Len(txt) = Len(c[2]) + Len(map[c[1]][1]) + Len(c[3])
        /\ SubSeq(txt, 1, Len(c[2])) = c[2]
        /\ SubSeq(txt, Len(txt) - Len(c[3]) + 1, Len(txt)) = c[3]
        /\ toLowerCase(Chars(SubSeq(txt, Len(c[2]) + 1, Len(txt) - Len(c[3]))))
              = Chars(map[c[1]][1])}

\* C23: when the dictionary holds two keys one of which contains the other,
\* a whole-word occurrence of the longer key is replaced by the longer key's
\* replacement, never by the shorter key's replacement plus leftover
\* characters.
C23_LongerKeyWins ==
    (fnCall.fn = "replaceTextWithMapSync" /\ PatternCompiled(fnCall.map)) =>
        \A c \in LongerKeyOccurrences(fnCall.text, fnCall.map) :
            LET m == Chars(SubSeq(fnCall.text, Len(c[2]) + 1, Len(fnCall.text) - Len(c[3])))
            IN  fnOut = c[2] \o Str(preserveCaseReplace(m, Chars(fnCall.map[c[1]][2]))) \o c[3]

C23_Witness ==
    /\ fnCall.fn = "replaceTextWithMapSync"
    /\ fnCall.map = DictNest
    /\ fnCall.text = "my cooker now"
    /\ fnOut = "my stove now"
    /\ LongerKeyOccurrences(fnCall.text, fnCall.map) # {}


\* C24: at most one debounced re-application is pending at any time: a
\* batch scheduled while a timer is pending cancels that timer, and the one
\* execution that follows is that of the most recently scheduled call.
C24_OnePendingTimer == Cardinality(timers) <= 1


\* the keys of the dictionary on which compiling the pattern fails
MalformedKeys(map) == {i \in 1..Len(map) : Len(map[i][1]) > PatternLimit}

\* the dictionary without those keys
WellFormedPart(map) == SelectSeq(map, LAMBDA e : Len(e[1]) <= PatternLimit)

CompileFailedCall ==
    /\ fnCall.fn = "replaceTextWithMapSync"
    /\ Cardinality(MalformedKeys(fnCall.map)) = 1

\* C25 (as amended): when compiling the pattern fails because of one
\* malformed dictionary key, no key of the dictionary is matched or
\* replaced: every text is returned unchanged.
C25_CompileFailureDropsAll ==
    CompileFailedCall => fnOut = fnCall.text

C25_Witness ==
    /\ CompileFailedCall
    /\ fnCall.text = "I HATE this"
    /\ fnOut = "I HATE this"
    /\ ~AURA_RE.compiled

\* C25 as stated: when compiling the pattern fails because of one malformed
\* dictionary key, that key alone is excluded and every other key of the
\* dictionary is still matched and replaced.
C25_OnlyMalformedKeyExcluded ==
    CompileFailedCall =>
        fnOut = replaceTextWithMapSync(fnCall.text, WellFormedPart(fnCall.map), NoRegex)


\* C26: every application pass takes the compiled pattern and the
\* replacement lookup from one dictionary, the one most recently supplied:
\* a mutation-driven re-application by the installed watcher gives what
\* applying the current dictionary (AURA_MAP, from which AURA_RE was
\* compiled) to the touched nodes gives.
C26_OneDictionaryPerPass ==
    [][lastOp'.op = "debouncedApply" =>
          \A t \in timers :
              (t.live /\ observer.on /\ FiredIn(t, text', attr')) =>
                  LET s == scheduledApply(CurrentStore, t.nodes, AURA_MAP, AURA_RE, observer.on)
                  IN  s.text = text' /\ s.attr = attr']_vars


\* C27: substitution is turned off only by the persisted enable flag: the
\* storage.onChanged listener handling a change of the dictionary alone,
\* while the persisted aura_emotion_aware is true, neither restores the
\* substituted content nor uninstalls the mutation watcher.
C27_MapChangeKeepsFilterOn ==
    [][~(/\ changesQ # <<>>
         /\ changesQ' = Tail(changesQ)
         /\ Head(changesQ).aware = <<>>
         /\ Head(changesQ).map # <<>>
         /\ sync_aware
         /\ observer.on
         /\ (~observer'.on \/ lastOp'.op = "storageDisable"))]_vars


\* C28: when a subtree is inserted while substitution is enabled, the
\* allow-listed attributes of every element in that subtree, not only of
\* its root, are substituted: the re-application of an inserted root handles
\* each attribute value of each element below it.
C28_SubtreeAttributesSubstituted ==
    [][lastOp'.op = "debouncedApply" =>
          \A t \in timers :
              (t.live /\ observer.on /\ FiredIn(t, text', attr')) =>
                  \A i \in 1..Len(t.nodes) :
                      t.nodes[i] \in inserted =>
                          \A el \in AttrElements \ faulty :
                              \A a \in AttrNames \cap EMOTION_ATTRIBUTES :
                                  (/\ InSubtreeIn(parent, t.nodes[i], el)
                                   /\ attr[el][a] # NoAttr)
                                      => Handled(attr[el][a], attr'[el][a], t.map, AURA_RE)]_vars


\* C29: the watcher observing the engine's own writes does not cause an
\* unbounded chain of re-applications.  In finite form: when a
\* re-application has written and the next step is the re-application its
\* own writes triggered, whatever that second round writes is final, i.e. a
\* text the dictionary changes no further, so that the round after it
\* writes nothing.
C29_SelfTriggeredRoundsEnd ==
    [][(/\ lastOp.op = "debouncedApply"
        /\ "wrote" \in lastOp.tags
        /\ lastOp'.op = "debouncedApply"
        /\ observer.on) =>
          \A t \in timers :
              (t.live /\ FiredIn(t, text', attr')) =>
                  \A l \in Leaves :
                      text'[l] # text[l] => Replaced(text'[l], t.map, AURA_RE) = text'[l]]_vars

\* C30: once an aura_enabled change to false has been handled and until AURA
\* is enabled again, no AURA override style element is in the document,
\* neither the global one nor one in a shadow root, whatever the order of the
\* disable event, the injection microtask, the 40 ms timer and the 100 ms timer.
C30_NoStyleWhileDisabled ==
    (offSince /\ ~style.isEnabled) =>
        (style.globalStyle = NoProfile /\ style.shadowStyle = NoProfile)


\* onMessage AURA_ADBLOCK_TOGGLE that does not persist the flag
AdBlockToggleMessage_noPersist ==
    /\ opBudget > 0
    /\ opBudget' = opBudget - 1
    /\ adBlockEnabled' = ~adBlockEnabled
    /\ ruleset' = updateAdBlockRuleset(adBlockEnabled')
    /\ Launch("AURA_ADBLOCK_TOGGLE", "awaitSet", FALSE, Stored(adBlockEnabled'), "none")
    /\ UNCHANGED <<darkModeEnabled, isNightTime, tabCss, ask, storage>>
    /\ BgFrame

\* onMessage AURA_ADBLOCK_TOGGLE up to await storage.local.set
\*                                                     background.js 263-266
AdBlockToggleMessage ==
    /\ opBudget > 0
    /\ opBudget' = opBudget - 1
    /\ adBlockEnabled' = ~adBlockEnabled
    /\ ruleset' = updateAdBlockRuleset(adBlockEnabled')
    /\ storage' = [storage EXCEPT !.adBlockEnabled = Stored(adBlockEnabled')]
    /\ Launch("AURA_ADBLOCK_TOGGLE", "awaitSet", FALSE, Stored(adBlockEnabled'), "none")
    /\ UNCHANGED <<darkModeEnabled, isNightTime, tabCss, ask>>
    /\ BgFrame

\* ... and its sendResponse({ enabled: adBlockEnabled })   background.js 267-268
AdBlockSetDone(i) ==
    /\ tasks[i].type = "AURA_ADBLOCK_TOGGLE"
    /\ tasks[i].pc = "awaitSet"
    /\ tasks' = [tasks EXCEPT ![i].pc = "done", ![i].resp = Stored(adBlockEnabled)]
    /\ UNCHANGED <<adBlockEnabled, darkModeEnabled, isNightTime, storage, ruleset,
                   tabCss, ask, opBudget>>
    /\ BgFrame

\* onMessage AURA_ADBLOCK_STATUS                         background.js 270-273
AdBlockStatusMessage ==
    /\ opBudget > 0
    /\ opBudget' = opBudget - 1
    /\ Launch("AURA_ADBLOCK_STATUS", "done", FALSE, "unset", Stored(adBlockEnabled))
    /\ UNCHANGED <<adBlockEnabled, darkModeEnabled, isNightTime, storage, ruleset,
                   tabCss, ask>>
    /\ BgFrame

\* onCommand toggle_aura up to await storage.sync.get; val is what the get
\* returns                                               background.js 375-376
ToggleAuraCommand ==
    /\ opBudget > 0
    /\ opBudget' = opBudget - 1
    /\ Launch("toggle_aura", "awaitGet", FALSE, storage.aura_enabled, "none")
    /\ UNCHANGED <<adBlockEnabled, darkModeEnabled, isNightTime, storage, ruleset,
                   tabCss, ask>>
    /\ BgFrame

\* ... newValue = !aura_enabled, storage.sync.set, up to await tabs.query;
\* resp keeps the value written                          background.js 376-380
ToggleAuraGetDone(i) ==
    /\ tasks[i].type = "toggle_aura"
    /\ tasks[i].pc = "awaitGet"
    /\ LET newValue == Not(tasks[i].val)
       IN  /\ storage' = [storage EXCEPT !.aura_enabled = Stored(newValue)]
           /\ tasks' = [tasks EXCEPT ![i].pc = "awaitQuery", ![i].resp = Stored(newValue)]
    /\ UNCHANGED <<adBlockEnabled, darkModeEnabled, isNightTime, ruleset, tabCss,
                   ask, opBudget>>
    /\ BgFrame

\* ... the AURA_TOGGLE_FROM_SHORTCUT messages to the eligible tabs, which no
\* content script listens for                            background.js 380-390
ToggleAuraQueryDone(i) ==
    /\ tasks[i].type = "toggle_aura"
    /\ tasks[i].pc = "awaitQuery"
    /\ tasks' = [tasks EXCEPT ![i].pc = "done"]
    /\ UNCHANGED <<adBlockEnabled, darkModeEnabled, isNightTime, storage, ruleset,
                   tabCss, ask, opBudget>>
    /\ BgFrame

\* the sendMessage callback of askTabForSections without its `if (done) return`
AskCallback_noDoneCheck(outcome) ==
    /\ ask.callback = "pending"
    /\ ask' = [ask EXCEPT !.callback = "delivered", !.done = TRUE,
                          !.timer = IF @ = "pending" THEN "cleared" ELSE @,
                          !.resolved = Append(@, outcome)]
    /\ UNCHANGED <<adBlockEnabled, darkModeEnabled, isNightTime, storage, ruleset,
                   tabCss, tasks, opBudget>>
    /\ BgFrame

\* askTabForSections(tabId): the timer is armed and the message sent, or
\* sendMessage throws and the catch resolves              background.js 221-230, 245-251
AskStart(throws) ==
    /\ opBudget > 0
    /\ ask.timer # "pending"
    /\ opBudget' = opBudget - 1
    /\ ask' = IF throws
              THEN [started |-> TRUE, done |-> TRUE, timer |-> "cleared",
                    callback |-> "none", resolved |-> <<"error">>]
              ELSE [started |-> TRUE, done |-> FALSE, timer |-> "pending",
                    callback |-> "pending", resolved |-> <<>>]
    /\ UNCHANGED <<adBlockEnabled, darkModeEnabled, isNightTime, storage, ruleset,
                   tabCss, tasks>>
    /\ BgFrame

\* the sendMessage callback: the tab's answer ("sections") or
\* chrome.runtime.lastError ("error")                    background.js 232-244
AskCallback(outcome) ==
    /\ ask.callback = "pending"
    /\ ask' = IF ask.done THEN [ask EXCEPT !.callback = "delivered"]
              ELSE [ask EXCEPT !.callback = "delivered", !.done = TRUE,
                               !.timer = "cleared", !.resolved = Append(@, outcome)]
    /\ UNCHANGED <<adBlockEnabled, darkModeEnabled, isNightTime, storage, ruleset,
                   tabCss, tasks, opBudget>>
    /\ BgFrame

\* the DEFAULT_TIMEOUT_MS timer fires                    background.js 224-229
AskTimeout ==
    /\ ask.timer = "pending"
    /\ ask' = IF ask.done THEN [ask EXCEPT !.timer = "fired"]
              ELSE [ask EXCEPT !.timer = "fired", !.done = TRUE,
                               !.resolved = Append(@, "timeout")]
    /\ UNCHANGED <<adBlockEnabled, darkModeEnabled, isNightTime, storage, ruleset,
                   tabCss, tasks, opBudget>>
    /\ BgFrame

\* the service worker after onInstalled has loaded the saved flags
\*                                                     background.js 91-105
InitBg ==
    /\ InitTree
    /\ InitEngine
    /\ faulty = {}
    /\ InitFnEnv
    /\ InitHist
    /\ fnCall = NoCall
    /\ fnOut = ""
    /\ reader = NoReader
    /\ style = NoStyle
    /\ storage \in [{"adBlockEnabled", "darkModeEnabled", "aura_enabled"} ->
                        {"unset", "true", "false"}]
    /\ adBlockEnabled = NotFalse(storage.adBlockEnabled)
    /\ darkModeEnabled = NotFalse(storage.darkModeEnabled)
    /\ isNightTime = FALSE
    /\ ruleset = updateAdBlockRuleset(adBlockEnabled)
    /\ tabCss = {}
    /\ tasks = <<>>
    /\ ask = NoAsk
    /\ opBudget = MaxOps
    /\ utteranceQueue = <<>>
    /\ currentChunkIndex = 0
    /\ playControls = "none"
    /\ tts = NoSpeech
    /\ splitCall = NoSplit

NextDark ==
    \/ DarkToggleMessage
    \/ NightModeCommand
    \/ \E night \in BOOLEAN : UpdateNightStatus(night)
    \/ \E i \in 1..Len(tasks) : DarkSetDone(i)
    \/ \E i \in 1..Len(tasks) : DarkQueryDone(i)
    \/ \E i \in 1..Len(tasks) : DarkTabDone(i)

NextBg ==
    \/ AdBlockToggleMessage
    \/ AdBlockStatusMessage
    \/ \E i \in 1..Len(tasks) : AdBlockSetDone(i)
    \/ ToggleAuraCommand
    \/ \E i \in 1..Len(tasks) : ToggleAuraGetDone(i)
    \/ \E i \in 1..Len(tasks) : ToggleAuraQueryDone(i)
    \/ \E throws \in BOOLEAN : AskStart(throws)
    \/ \E outcome \in {"sections", "error"} : AskCallback(outcome)
    \/ AskTimeout

SpecDark == InitBg /\ [][NextDark]_vars
SpecBg == InitBg /\ [][NextBg]_vars


\* ------------------------------------------------------------------------
\* Popup: splitText and the speech queue            popup script 223-323
\* ------------------------------------------------------------------------
\* maxLen, 1800 in the source, scaled
maxLen == 3

\* String.prototype.lastIndexOf(ch, fromIndex), zero-based, -1 when absent
lastIndexOf(cs, ch, fromIndex) ==
    LET hits == {k \in 0..(Len(cs) - 1) : k <= fromIndex /\ cs[k + 1] = ch}
    IN  IF hits = {} THEN -1 ELSE CHOOSE k \in hits : \A o \in hits : o <= k

\* one round of the while loop of splitText that drops the break character
\* from neither side: the rest starts at the cutoff
splitStep_keepBreak(cs) ==
    IF Len(cs) <= maxLen THEN [chunk |-> cs, rest |-> <<>>]
    ELSE LET dot == lastIndexOf(cs, ".", maxLen)
             space == lastIndexOf(cs, " ", maxLen)
             cutoff == IF dot # -1 THEN dot ELSE IF space # -1 THEN space ELSE maxLen
         IN  [chunk |-> SubSeq(cs, 1, cutoff + 1), rest |-> slice(cs, cutoff)]

\* one round of the while loop of splitText              popup script 227-239
splitStep(cs) ==
    IF Len(cs) <= maxLen THEN [chunk |-> cs, rest |-> <<>>]
    ELSE LET dot == lastIndexOf(cs, ".", maxLen)
             space == lastIndexOf(cs, " ", maxLen)
             cutoff == IF dot # -1 THEN dot ELSE IF space # -1 THEN space ELSE maxLen
         IN  [chunk |-> SubSeq(cs, 1, cutoff + 1), rest |-> slice(cs, cutoff + 1)]

\* what stands in the result for a loop that has not ended after `rounds`
\* rounds
Diverged == <<"<diverges>">>

RECURSIVE splitLoop(_, _)
splitLoop(cs, rounds) ==
    IF Len(cs) = 0 THEN <<>>
    ELSE IF rounds = 0 THEN <<Diverged>>
    ELSE LET st == splitStep(cs)
         IN  <<st.chunk>> \o splitLoop(st.rest, rounds - 1)

\* splitText                                             popup script 223-241
splitText(cs) == splitLoop(cs, Len(cs) + 1)

\* the inputs of splitText: every string over a letter, the full stop and
\* the space up to MaxSplitLen characters
MaxSplitLen == 6
SplitAlphabet == {"a", ".", " "}
SplitTexts == UNION {[1..n -> SplitAlphabet] : n \in 0..MaxSplitLen}

PopupFrame ==
    /\ UNCHANGED <<domVars, engineVars, envVars, histVars>>
    /\ UNCHANGED <<fnCall, fnOut, reader, style, replaced, bgVars>>

\* a call splitText(txt), the first one of the run
SplitCall(txt) ==
    /\ splitCall = NoSplit
    /\ splitCall' = [text |-> txt, chunks |-> splitText(txt)]
    /\ UNCHANGED <<utteranceQueue, currentChunkIndex, playControls, tts>>
    /\ PopupFrame

InitPopup ==
    /\ InitTree
    /\ InitEngine
    /\ faulty = {}
    /\ InitFnEnv
    /\ InitHist
    /\ InitFn

NextSplit == \E txt \in SplitTexts : SplitCall(txt)

SpecSplit == InitPopup /\ [][NextSplit]_vars

RECURSIVE Concat(_)
Concat(chunks) ==
    IF chunks = <<>> THEN <<>> ELSE Head(chunks) \o Concat(Tail(chunks))

\* C35: splitText ends after at most one round per character, no chunk it
\* returns is empty, and the chunks joined in order are the input.
C35_SplitPartitionsInput ==
    /\ \A k \in 1..Len(splitCall.chunks) :
          splitCall.chunks[k] # Diverged /\ splitCall.chunks[k] # <<>>
    /\ Concat(splitCall.chunks) = splitCall.text

\* a text cut at a full stop, then at a space, then at maxLen
C35_Witness ==
    /\ splitCall.text = <<"a", ".", "a", " ", "a", "a">>
    /\ splitCall.chunks = << <<"a", ".">>, <<"a", " ">>, <<"a", "a">> >>

\* C36: no chunk returned by splitText is longer than maxLen.
C36_ChunksWithinMaxLen ==
    \A k \in 1..Len(splitCall.chunks) : Len(splitCall.chunks[k]) <= maxLen

\* no handler that changes the dark-mode CSS is still running
DarkHandlersDone ==
    \A i \in 1..Len(tasks) : tasks[i].pc = "done"

\* C31: once the dark-mode handlers in flight have completed, each eligible
\* tab holds the dark-mode CSS if and only if darkModeEnabled and isNightTime
\* are both true.
C31_DarkCssMatchesFlags ==
    DarkHandlersDone =>
        \A k \in 1..Len(Tabs) :
            Eligible(Tabs[k]) => (Tabs[k] \in tabCss <=> (darkModeEnabled /\ isNightTime))

\* the handlers that call uninstallEmotionMutationObserver
UninstallOps ==
    {"initialDisabled", "storageDisable", "masterDisable", "messageRestore",
     "pipelineDisabled"}

\* the handlers that end in installEmotionMutationObserver(AURA_MAP)
InstallOps == {"initialPass", "deferredApply", "pipelinePass"}

\* C38: at most one emotion watcher pair exists: the observer and the shadow
\* watcher are set and cleared together, an install while a pair exists
\* leaves that pair (and the dictionary it captured) as it is, every
\* uninstall leaves both references null, and an install with a non-empty
\* dictionary when none exists creates the pair for that dictionary.
C38_OneWatcherPair ==
    [][/\ shadowWatcher' = observer'.on
       /\ (observer.on /\ observer'.on) => observer' = observer
       /\ lastOp'.op \in UninstallOps => (observer' = NoObserver /\ ~shadowWatcher')
       /\ (~observer.on /\ lastOp'.op \in InstallOps /\ AURA_MAP' # EmptyMap) =>
              (observer' = [on |-> TRUE, map |-> AURA_MAP'] /\ shadowWatcher')]_vars

\* a pair installed again after an uninstall orphaned a pending timer
C38_Witness ==
    /\ observer.on
    /\ shadowWatcher
    /\ \E t \in timers : ~t.live

\* C32: the promise of askTabForSections is settled at most once, and is
\* settled as soon as the timer is no longer pending; an answer that arrives
\* while the timer is pending settles it with the tab's sections (or with the
\* send error) and clears the timer; the timer firing first settles it with
\* the timeout error; a late answer changes nothing.
C32_SettledExactlyOnce ==
    [][/\ Len(ask'.resolved) <= 1
       /\ (ask'.started /\ ask'.timer # "pending") => Len(ask'.resolved) = 1
       /\ (ask.callback = "pending" /\ ask'.callback = "delivered" /\ ask.timer = "pending")
             => (/\ ask'.resolved \in {<<"sections">>, <<"error">>}
                 /\ ask'.timer = "cleared")
       /\ (ask.timer = "pending" /\ ask'.timer = "fired")
             => ask'.resolved = <<"timeout">>
       /\ (ask.callback = "pending" /\ ask'.callback = "delivered" /\ ask.timer = "fired")
             => (ask'.resolved = ask.resolved /\ ask'.timer = "fired")]_vars

\* the tab answered after the timeout had settled the promise
C32_Witness ==
    /\ ask.timer = "fired"
    /\ ask.callback = "delivered"
    /\ ask.resolved = <<"timeout">>

\* C33: every toggle_aura command writes the negation of the effective
\* enabled state it found in storage, whatever the stored value, unset
\* included.
C33_ToggleInvertsEffective ==
    \A i \in 1..Len(tasks) :
        (tasks[i].type = "toggle_aura" /\ tasks[i].resp # "none") =>
            tasks[i].resp = Stored(~EffectiveEnabled(tasks[i].val))

\* the AURA_ADBLOCK_TOGGLE handlers have all completed, and there was one
AdBlockTogglesDone ==
    /\ \E i \in 1..Len(tasks) : tasks[i].type = "AURA_ADBLOCK_TOGGLE"
    /\ \A i \in 1..Len(tasks) : tasks[i].pc = "done"

\* C34 as stated, the response read as the value the toggle itself set:
\* adBlockEnabled changes only when an AURA_ADBLOCK_TOGGLE message
\* arrives, which inverts it; the response of a toggle reports the value that
\* toggle set; AURA_ADBLOCK_STATUS changes neither the flag, nor the storage,
\* nor the ruleset; once all toggles have completed, the persisted flag and
\* the state requested for the ruleset equal the in-memory value.
C34_AdBlockToggle ==
    [][/\ adBlockEnabled' # adBlockEnabled =>
             (/\ Len(tasks') = Len(tasks) + 1
              /\ tasks'[Len(tasks')].type = "AURA_ADBLOCK_TOGGLE")
       /\ (Len(tasks') = Len(tasks) + 1 /\ tasks'[Len(tasks')].type = "AURA_ADBLOCK_TOGGLE")
             => adBlockEnabled' = ~adBlockEnabled
       /\ (Len(tasks') = Len(tasks) + 1 /\ tasks'[Len(tasks')].type = "AURA_ADBLOCK_STATUS")
             => (/\ UNCHANGED <<adBlockEnabled, storage, ruleset>>
                 /\ tasks'[Len(tasks')].resp = Stored(adBlockEnabled))
       /\ \A i \in 1..Len(tasks) :
             (/\ tasks[i].type = "AURA_ADBLOCK_TOGGLE"
              /\ tasks[i].pc = "awaitSet" /\ tasks'[i].pc = "done")
                => tasks'[i].resp = tasks[i].val
       /\ AdBlockTogglesDone' =>
             (/\ storage'.adBlockEnabled = (IF adBlockEnabled' THEN "true" ELSE "false")
              /\ ruleset' = (IF adBlockEnabled' THEN "enableRulesetIds"
                                                ELSE "disableRulesetIds"))]_vars

\* C34, amended: as above, but the response of a toggle reports the value
\* adBlockEnabled has when the response is sent; that is the value the toggle
\* set when no later toggle message has arrived by then.
C34_AdBlockToggleResponseCurrent ==
    [][/\ adBlockEnabled' # adBlockEnabled =>
             (/\ Len(tasks') = Len(tasks) + 1
              /\ tasks'[Len(tasks')].type = "AURA_ADBLOCK_TOGGLE")
       /\ (Len(tasks') = Len(tasks) + 1 /\ tasks'[Len(tasks')].type = "AURA_ADBLOCK_TOGGLE")
             => adBlockEnabled' = ~adBlockEnabled
       /\ (Len(tasks') = Len(tasks) + 1 /\ tasks'[Len(tasks')].type = "AURA_ADBLOCK_STATUS")
             => (/\ UNCHANGED <<adBlockEnabled, storage, ruleset>>
                 /\ tasks'[Len(tasks')].resp = Stored(adBlockEnabled))
       /\ \A i \in 1..Len(tasks) :
             (/\ tasks[i].type = "AURA_ADBLOCK_TOGGLE"
              /\ tasks[i].pc = "awaitSet" /\ tasks'[i].pc = "done")
                => (/\ tasks'[i].resp = (IF adBlockEnabled THEN "true" ELSE "false")
                    /\ (\A j \in (i + 1)..Len(tasks) :
                            tasks[j].type # "AURA_ADBLOCK_TOGGLE")
                          => tasks'[i].resp = tasks[i].val)
       /\ AdBlockTogglesDone' =>
             (/\ storage'.adBlockEnabled = (IF adBlockEnabled' THEN "true" ELSE "false")
              /\ ruleset' = (IF adBlockEnabled' THEN "enableRulesetIds"
                                                ELSE "disableRulesetIds"))]_vars

\* two toggles overlapped and both have answered; the first one's response
\* is not the value it set
C34_Witness ==
    /\ AdBlockTogglesDone
    /\ \E i \in 1..Len(tasks) : \E j \in (i + 1)..Len(tasks) :
          /\ tasks[i].type = "AURA_ADBLOCK_TOGGLE"
          /\ tasks[j].type = "AURA_ADBLOCK_TOGGLE"
          /\ tasks[i].resp # tasks[i].val
          /\ tasks[j].resp = tasks[j].val
    /\ storage.adBlockEnabled = Stored(adBlockEnabled)

\* ------------------------------------------------------------------------
\* Popup: the speech queue                          popup script 243-323
\* An utterance is named by the speakLongText request it belongs to and its
\* index in that request's queue; the onEvent callbacks do not know it.
\* ------------------------------------------------------------------------
MaxRequests == 2

\* texts of one, two and three chunks
SpeechTexts ==
    { <<"a", "a">>,
      <<"a", ".", "a", "a", "a">>,
      <<"a", ".", " ", "a", ".", " ", "a", ".">> }

\* chrome.tts.speak without enqueue: the utterance being spoken is
\* interrupted and the new one starts
Speak(t, utt) ==
    [t EXCEPT !.events = IF t.speaking # NoUtterance
                         THEN Append(@, [type |-> "interrupted", utt |-> t.speaking])
                         ELSE @,
              !.speaking = utt,
              !.paused = FALSE,
              !.log = Append(@, utt)]

\* speakLongText(txt), from the speak-page, speak-selection or start button
\*                                                     popup script 263-269
SpeakLongText(txt) ==
    /\ tts.request < MaxRequests
    /\ utteranceQueue' = splitText(txt)
    /\ currentChunkIndex' = 0
    /\ playControls' = "flex"
    /\ LET t == [tts EXCEPT !.request = @ + 1]
       IN  tts' = Speak(t, [request |-> t.request, index |-> 0])
    /\ UNCHANGED splitCall
    /\ PopupFrame

\* the speech engine reaches the end of the utterance and sends its 'end'
\* event
TtsUtteranceEnds ==
    /\ tts.speaking # NoUtterance
    /\ ~tts.paused
    /\ tts' = [tts EXCEPT !.speaking = NoUtterance,
                          !.events = Append(@, [type |-> "end", utt |-> tts.speaking])]
    /\ UNCHANGED <<utteranceQueue, currentChunkIndex, playControls, splitCall>>
    /\ PopupFrame

\* the onEvent callback of speakChunk receives the next event
\*                                                     popup script 250-259
TtsEvent ==
    /\ tts.events # <<>>
    /\ LET ev == Head(tts.events)
           t == [tts EXCEPT !.events = Tail(@)]
           next == currentChunkIndex + 1
       IN  IF ev.type = "end"
           THEN /\ currentChunkIndex' = next
                /\ IF next < Len(utteranceQueue)
                   THEN /\ tts' = Speak(t, [request |-> t.request, index |-> next])
                        /\ UNCHANGED playControls
                   ELSE /\ tts' = t
                        /\ playControls' = "none"
           ELSE /\ tts' = t
                /\ UNCHANGED <<currentChunkIndex, playControls>>
    /\ UNCHANGED <<utteranceQueue, splitCall>>
    /\ PopupFrame

\* the pause and resume buttons                          popup script 318-319
PauseButton ==
    /\ tts.speaking # NoUtterance
    /\ ~tts.paused
    /\ tts' = [tts EXCEPT !.paused = TRUE]
    /\ UNCHANGED <<utteranceQueue, currentChunkIndex, playControls, splitCall>>
    /\ PopupFrame

ResumeButton ==
    /\ tts.paused
    /\ tts' = [tts EXCEPT !.paused = FALSE]
    /\ UNCHANGED <<utteranceQueue, currentChunkIndex, playControls, splitCall>>
    /\ PopupFrame

\* the stop button: chrome.tts.stop() and the controls hidden
\*                                                     popup script 320-323
StopButton ==
    /\ playControls = "flex"
    /\ tts' = [tts EXCEPT
                 !.events = IF tts.speaking # NoUtterance
                            THEN Append(@, [type |-> "interrupted", utt |-> tts.speaking])
                            ELSE @,
                 !.speaking = NoUtterance,
                 !.paused = FALSE]
    /\ playControls' = "none"
    /\ UNCHANGED <<utteranceQueue, currentChunkIndex, splitCall>>
    /\ PopupFrame

NextSpeech ==
    \/ \E txt \in SpeechTexts : SpeakLongText(txt)
    \/ TtsUtteranceEnds
    \/ TtsEvent
    \/ PauseButton
    \/ ResumeButton
    \/ StopButton

SpecSpeech == InitPopup /\ [][NextSpeech]_vars

\* C37: a chunk other than the first is handed to the speech engine only by
\* the callback that receives the 'end' event of the chunk before it in the
\* same request, no chunk is handed over twice, and the callback hides the
\* play controls only on the 'end' event of the last chunk of the current
\* queue.
C37_ChunksInOrder ==
    [][/\ Len(tts'.log) > Len(tts.log) =>
             LET utt == tts'.log[Len(tts'.log)]
             IN  /\ \A k \in 1..Len(tts.log) : tts.log[k] # utt
                 /\ utt.index > 0 =>
                       (/\ tts.events # <<>>
                        /\ Head(tts.events) =
                              [type |-> "end",
                               utt |-> [request |-> utt.request, index |-> utt.index - 1]])
       /\ (/\ playControls = "flex" /\ playControls' = "none"
           /\ tts.events # <<>> /\ tts'.events = Tail(tts.events)) =>
             Head(tts.events) =
                 [type |-> "end",
                  utt |-> [request |-> tts.request, index |-> Len(utteranceQueue) - 1]]]_vars

====
